---- MODULE Spec2Model ----
(***************************************************************************)
(* Verification model of the LakeB2B social post generator.                *)
(*                                                                         *)
(* The sub-systems are modelled each with its own specification:           *)
(*   SpecApi    the resilient HTTP client (ApiClient: retry, circuit       *)
(*              breaker), with several calls in flight at once;            *)
(*   SpecImg    the generate-image handler and the server-side logo        *)
(*              overlay pipeline (addLogoOverlay) plus the canvas based    *)
(*              applyLogoOverlay of add-logo;                              *)
(*   SpecPlace  the placement calculator (calculateLogoPlacement);         *)
(*   SpecPixel  one logo pixel through the style transform and the opacity *)
(*              stage;                                                     *)
(*   SpecConn   the ConnectionManager: periodic health checks and the      *)
(*              reconnect timer;                                           *)
(*   SpecSvc    the AutoStartService that supervises the server process;   *)
(*   SpecRuns   concurrent runs of addLogoOverlay;                         *)
(*   SpecMon    the ServerMonitor script that supervises the dev server;   *)
(*   SpecHealth the ConnectionManager on top of the ApiClient and the      *)
(*              health endpoint;                                           *)
(*   SpecGame   the MiniGame component shown during a generation;          *)
(*   SpecGen    the PostGenerator component (handleGenerate);              *)
(*   SpecEdit   the RichTextEditor component (history, undo, redo).        *)
(* A specification leaves the variables of the other sub-systems at their  *)
(* initial value.                                                          *)
(***************************************************************************)
EXTENDS Integers, Sequences, FiniteSets, TLC

VARIABLES
  \* ---- ApiClient (fields of the class) ----
  circuitBreakerFailures,     \* private circuitBreakerFailures: number
  circuitBreakerLastFailure,  \* private circuitBreakerLastFailure: number
  circuitBreakerOpen,         \* private circuitBreakerOpen: boolean
  now,                        \* Date.now(), in ticks
  \* ---- one entry per concurrent call of ApiClient.request ----
  pc,          \* position of the call: idle | fetch | body | sleep
  attempt,     \* loop variable `attempt`
  retries,     \* local `maxRetries` of the call
  response,    \* status class of the response being read: none | ok | 4xx | 5xx
  \* ---- observers of the ApiClient (history, not program state) ----
  failedStreak,    \* failed calls since the last ok response
  coolDownEnd,     \* while the breaker's cool-down runs: last recorded
                   \* failure + circuitBreakerResetTime; otherwise 0
  probe,           \* the call admitted by the cool-down reset while it
                   \* runs; 0: none; -1: it has failed
  \* ---- image requests: environment ----
  entry,        \* what runs: handler (generate-image) | direct (a call of
                \* addLogoOverlay) | canvas (applyLogoOverlay of add-logo)
  apiKey,       \* GEMINI_API_KEY is set
  logoBW,       \* public/logos/LakeB2B Logo BW.png exists
  logoSquare,   \* public/logos/LakeB2B Logo Square.png exists
  \* ---- image requests: program state ----
  ipc,          \* position of the request
  req,          \* method and body of the request / options of the call
  phase,        \* which call of addLogoOverlay runs: gemini | placeholder | direct
  src,          \* the baseImage argument: [kind, mime, bytes]
  buf,          \* baseImageBuffer
  layer,        \* the logo layer built so far
  ret,          \* what addLogoOverlay / applyLogoOverlay returned
  res,          \* the HTTP response of the handler
  \* ---- observers of the image request ----
  ran,          \* the stages executed, in order
  thrown,       \* the stage that raised the error caught by addLogoOverlay
  \* ---- placement calculator ----
  placeIn,      \* arguments of calculateLogoPlacement
  placeOut,     \* the LogoPlacement returned
  \* ---- one pixel of the logo on its way through the stages ----
  pxImpl,       \* the implementation: sharp (imageProcessor.ts) | canvas
                \* (add-logo.ts) | legacy (the older canvas overlay)
  pxStyle,      \* options.style
  pxOpacity,    \* options.logoOpacity
  pxIn,         \* the pixel of the resized logo: [r, g, b, a, edge]
  pxStyled,     \* the pixel after the style transform
  pxFaded,      \* the pixel after the opacity stage
  pxStage,      \* resized | styled | faded
  \* ---- ConnectionManager ----
  checkInterval,     \* this.checkInterval is set
  reconnectTimeout,  \* this.reconnectTimeout is set
  isConnected,       \* state.isConnected
  retryCount,        \* state.retryCount
  checking,          \* health checks started by a timer and still in flight
  starting,          \* startMonitoring awaits its initial check
  stopped,           \* observer: stopMonitoring has returned and
                     \* startMonitoring has not been called since
  \* ---- AutoStartService ----
  isShuttingDown,       \* this.isShuttingDown
  serverProcess,        \* the child: none | running | killed | exited
  healthCheckInterval,  \* this.healthCheckInterval is set
  restartCount,         \* this.restartCount
  restartTimer,         \* pending timeouts of scheduleRestart
  startPc,              \* a call of startServer awaits its port: none, or
                        \* who called: cli | timer
  exitTimer,            \* the timeouts of shutdown that end in process.exit
  exited,               \* the service process has exited
  crashPending,         \* observer: the server crashed below the restart
                        \* limit and no server has been started since
  shutdownBy,           \* observer: none | operator | limit | exception
  startFailures,        \* observer: failed starts so far
  errors,               \* observer: 'error' events of the child so far
  \* ---- concurrent calls of addLogoOverlay, one entry per call ----
  runOptions,           \* baseImage and options of the call
  runPc,                \* the await the call is suspended at
  baseImageBuffer,      \* const baseImageBuffer
  processedLogo,        \* the encoded logo (processedLogoBuffer)
  compositeInput,       \* let compositeInput
  runResult,            \* the string the call resolved with
  \* ---- ServerMonitor (scripts/monitor-server.js) ----
  monRestartCount,      \* this.restartCount
  monProcess,           \* this.process: none | running | killing (SIGTERM
                        \* sent by the monitor) | dead | reaped (dead after
                        \* the monitor's signal)
  monStarted,           \* the child has printed 'Ready in'
  monHealthChecks,      \* an interval of startHealthChecks is running
  monTimers,            \* pending timeouts of handleRestart
  monExited,            \* process.exit was called
  monErrors,            \* observer: 'error' events and failed health checks
  monRestartsOfChild,   \* observer: restarts counted since this.process
                        \* was spawned
  \* ---- the server behind /api/health ----
  serverUp,             \* the server answers requests
  \* ---- MiniGame (components/MiniGame.tsx): props, state, timers ----
  gameVisible,          \* prop isVisible
  currentGame,          \* match | quickclick | collector
  timeLeft,
  gameCompleted,
  generationComplete,
  showFinishPrompt,
  gameProgress,         \* matches, clickedCount or collectedLeads
  gameTimer,            \* the 1 s timeout of the timer effect is pending
  goalTimeouts,         \* pending timeouts that call endGame(true)
  effectsDue,           \* effects to run after the last render: none |
                        \* visible (isVisible changed) | state
  onCompleteCalls,      \* observer: calls of onComplete so far
  gamesPlayed,          \* observer: games initialised so far
  \* ---- PostGenerator (components/PostGenerator.tsx) ----
  isGenerating,
  generatedImageUrl,    \* an image has been generated (the URL is not '')
  genTimeouts,          \* pending 100 ms timeouts that call handleGenerate
  genRetrying,          \* calls of handleGenerate waiting in retry()
  genInFlight,          \* calls waiting in imageService.generateImage
  genAwarding,          \* calls waiting in addPoints / incrementGeneration
  logoPosition,
  isAuthenticated,      \* useAuth(): a user is logged in
  genStarted,           \* observer: calls of handleGenerate asked for so far
  \* ---- RichTextEditor (components/RichTextEditor.tsx) ----
  value,                \* the prop `value`: the text shown, a sequence of
                        \* characters (the parent stores what onChange gets)
  history,              \* useState<string[]>([value])
  historyIndex,         \* useState(0); zero based as in the source
  lastOp,               \* observer: the last operation on the editor
  shownBeforeUndo       \* observer: while the last operation is an undo,
                        \* the text shown before it; otherwise empty

apiVars == <<circuitBreakerFailures, circuitBreakerLastFailure,
             circuitBreakerOpen, now, pc, attempt, retries, response,
             failedStreak, coolDownEnd, probe>>

imgVars == <<entry, apiKey, logoBW, logoSquare, ipc, req, phase, src, buf,
             layer, ret, res, ran, thrown>>

placeVars == <<placeIn, placeOut>>

pixVars == <<pxImpl, pxStyle, pxOpacity, pxIn, pxStyled, pxFaded, pxStage>>

connVars == <<checkInterval, reconnectTimeout, isConnected, retryCount,
              checking, starting, stopped>>

svcVars == <<isShuttingDown, serverProcess, healthCheckInterval, restartCount,
             restartTimer, startPc, exitTimer, exited, crashPending,
             shutdownBy, startFailures, errors>>

runVars == <<runOptions, runPc, baseImageBuffer, processedLogo,
             compositeInput, runResult>>

monVars == <<monRestartCount, monProcess, monStarted, monHealthChecks,
             monTimers, monExited, monErrors, monRestartsOfChild>>

\* the sub-systems of the later sections
hcVars == <<serverUp>>

gameVars == <<gameVisible, currentGame, timeLeft, gameCompleted,
              generationComplete, showFinishPrompt, gameProgress, gameTimer,
              goalTimeouts, effectsDue, onCompleteCalls, gamesPlayed>>

genVars == <<isGenerating, generatedImageUrl, genTimeouts, genRetrying,
             genInFlight, genAwarding, logoPosition, isAuthenticated,
             genStarted>>

editVars == <<value, history, historyIndex, lastOp, shownBeforeUndo>>

lateVars == <<runVars, monVars, hcVars, gameVars, genVars, editVars>>

vars == <<apiVars, imgVars, placeVars, pixVars, connVars, svcVars, lateVars>>

\* the variables of the sub-systems a specification does not run
notApi == <<imgVars, placeVars, pixVars, connVars, svcVars, lateVars>>
notImg == <<apiVars, placeVars, pixVars, connVars, svcVars, lateVars>>
notPlace == <<apiVars, imgVars, pixVars, connVars, svcVars, lateVars>>
notPix == <<apiVars, imgVars, placeVars, connVars, svcVars, lateVars>>
notConn == <<apiVars, imgVars, placeVars, pixVars, svcVars, lateVars>>
notSvc == <<apiVars, imgVars, placeVars, pixVars, connVars, lateVars>>
early == <<apiVars, placeVars, pixVars, connVars, svcVars>>
notRun == <<early, imgVars, monVars, hcVars, gameVars, genVars, editVars>>
notMon == <<early, imgVars, runVars, hcVars, gameVars, genVars, editVars>>
notGame == <<early, imgVars, runVars, monVars, hcVars, genVars, editVars>>
notGen == <<early, imgVars, runVars, monVars, hcVars, gameVars, editVars>>
notEdit == <<early, imgVars, runVars, monVars, hcVars, gameVars, genVars>>
\* the health checks of the ConnectionManager go through the ApiClient
notHealth == <<imgVars, placeVars, pixVars, svcVars, runVars, monVars, gameVars,
               genVars, editVars,
               pc, attempt, retries, response, failedStreak, coolDownEnd, probe>>

(***************************************************************************)
(* Bounds and configuration of the ApiClient.                              *)
(***************************************************************************)
NumCalls == 2                     \* concurrent calls of request
MaxTime == 3                      \* the clock stops here
maxRetries == 1                   \* config.maxRetries
circuitBreakerThreshold == 2      \* config.circuitBreakerThreshold
circuitBreakerResetTime == 2      \* config.circuitBreakerResetTime, in ticks

Calls == 1..NumCalls

NumRuns == 2                      \* concurrent calls of addLogoOverlay
Runs == 1..NumRuns
Min(a, b) == IF a < b THEN a ELSE b
Max(a, b) == IF a > b THEN a ELSE b

(***************************************************************************)
(* The state of a sub-system that a specification does not run.            *)
(***************************************************************************)
NoSrc == [kind |-> "none", mime |-> "none", bytes |-> "none"]
NoLayer == [variant |-> "none", box |-> <<0, 0, 0, 0>>, bw |-> FALSE,
            rotation |-> 0, opacity |-> 100, blend |-> "none"]
NoRet == [tag |-> "pending", mime |-> "none", bytes |-> "none", layer |-> NoLayer]
NoRes == [status |-> 0, code |-> "none", imageUrl |-> NoRet]
Num(v) == [num |-> TRUE, val |-> v]
NotANumber == [num |-> FALSE, val |-> 0]
NoReq == [method |-> "none", prompt |-> "none", style |-> "none",
          position |-> "none", logoSize |-> Num(0), logoOpacity |-> Num(0),
          logoRotation |-> Num(0)]
NoPlace == [x |-> 0, y |-> 0, width |-> 0, height |-> 0]

\* no request is handled (the logo files apart)
ImgOff ==
  /\ entry = "none" /\ apiKey = FALSE
  /\ ipc = "off" /\ req = NoReq /\ phase = "none" /\ src = NoSrc
  /\ buf = "none" /\ layer = NoLayer /\ ret = NoRet /\ res = NoRes
  /\ ran = <<>> /\ thrown = "none"

ImgIdle == ImgOff /\ logoBW = FALSE /\ logoSquare = FALSE

PlaceIdle ==
  /\ placeIn = [imageWidth |-> 0, imageHeight |-> 0, logoWidth |-> 0,
                logoHeight |-> 0, position |-> "none", logoSize |-> 0]
  /\ placeOut = NoPlace

NoPixel == [r |-> 0, g |-> 0, b |-> 0, a |-> 0]

PixIdle ==
  /\ pxImpl = "none" /\ pxStyle = "none" /\ pxOpacity = 100
  /\ pxIn = [r |-> 0, g |-> 0, b |-> 0, a |-> 0, edge |-> FALSE]
  /\ pxStyled = NoPixel /\ pxFaded = NoPixel /\ pxStage = "off"

\* ConnectionManager after its constructor
ConnIdle ==
  /\ checkInterval = FALSE /\ reconnectTimeout = FALSE /\ isConnected = FALSE
  /\ retryCount = 0 /\ checking = 0 /\ starting = FALSE /\ stopped = FALSE

\* AutoStartService after its constructor
SvcIdle ==
  /\ isShuttingDown = FALSE /\ serverProcess = "none"
  /\ healthCheckInterval = FALSE /\ restartCount = 0 /\ restartTimer = 0
  /\ startPc = "none" /\ exitTimer = FALSE /\ exited = FALSE
  /\ crashPending = FALSE /\ shutdownBy = "none" /\ startFailures = 0
  /\ errors = 0

\* no call of addLogoOverlay is under way
NoRunOptions == [style |-> "none", logoOpacity |-> 100, bytes |-> "none"]

RunIdle ==
  /\ runOptions = [r \in Runs |-> NoRunOptions]
  /\ runPc = [r \in Runs |-> "off"]
  /\ baseImageBuffer = [r \in Runs |-> "none"]
  /\ processedLogo = [r \in Runs |-> NoLayer]
  /\ compositeInput = [r \in Runs |-> NoLayer]
  /\ runResult = [r \in Runs |-> NoRet]

\* ServerMonitor after its constructor
MonIdle ==
  /\ monRestartCount = 0 /\ monProcess = "none" /\ monStarted = FALSE
  /\ monHealthChecks = FALSE /\ monTimers = 0 /\ monExited = FALSE
  /\ monErrors = 0 /\ monRestartsOfChild = 0

HcIdle == serverUp = FALSE

gameSeconds == 12         \* useState(12), setTimeLeft(12)

\* MiniGame when it is mounted, hidden
GameIdle ==
  /\ gameVisible = FALSE /\ currentGame = "match" /\ timeLeft = gameSeconds
  /\ gameCompleted = FALSE /\ generationComplete = FALSE
  /\ showFinishPrompt = FALSE /\ gameProgress = 0 /\ gameTimer = FALSE
  /\ goalTimeouts = 0 /\ effectsDue = "none" /\ onCompleteCalls = 0
  /\ gamesPlayed = 0

\* PostGenerator when it is mounted
GenMounted ==
  /\ isGenerating = FALSE /\ generatedImageUrl = FALSE /\ genTimeouts = 0
  /\ genRetrying = 0 /\ genInFlight = 0 /\ genAwarding = 0
  /\ logoPosition = "bottom-left" /\ genStarted = 0

GenIdle == GenMounted /\ isAuthenticated = FALSE

\* RichTextEditor when it is mounted with an empty text
EditIdle ==
  /\ value = <<>> /\ history = <<value>> /\ historyIndex = 0
  /\ lastOp = "none" /\ shownBeforeUndo = <<>>

LateIdle ==
  RunIdle /\ MonIdle /\ HcIdle /\ GameIdle /\ GenIdle /\ EditIdle

(***************************************************************************)
(* The circuit breaker: the three methods, as functions of the fields.     *)
(***************************************************************************)
Breaker == [failures |-> circuitBreakerFailures,
            last |-> circuitBreakerLastFailure,
            open |-> circuitBreakerOpen]

SetBreaker(b) ==
  /\ circuitBreakerFailures' = b.failures
  /\ circuitBreakerLastFailure' = b.last
  /\ circuitBreakerOpen' = b.open

\* variant: the reset leaves the breaker one failure short of opening
resetCircuitBreaker_halfOpen(b) ==
  [failures |-> circuitBreakerThreshold - 1, last |-> 0, open |-> FALSE]

resetCircuitBreaker(b) == [failures |-> 0, last |-> 0, open |-> FALSE]

recordCircuitBreakerFailure(b, t) ==
  [failures |-> b.failures + 1,
   last |-> t,
   open |-> (b.open \/ b.failures + 1 >= circuitBreakerThreshold)]

\* isCircuitBreakerOpen(): the value returned and the fields it leaves
isCircuitBreakerOpen(b, t) ==
  IF ~b.open THEN [ret |-> FALSE, after |-> b]
  ELSE IF t - b.last >= circuitBreakerResetTime
       THEN [ret |-> FALSE, after |-> resetCircuitBreaker(b)]
       ELSE [ret |-> TRUE, after |-> b]

(***************************************************************************)
(* ApiClient.request, one action per stretch between two awaits.           *)
(***************************************************************************)
ApiIdle ==
  /\ circuitBreakerFailures = 0
  /\ circuitBreakerLastFailure = 0
  /\ circuitBreakerOpen = FALSE
  /\ now = 1
  /\ pc = [i \in Calls |-> "idle"]
  /\ attempt = [i \in Calls |-> 0]
  /\ retries = [i \in Calls |-> 0]
  /\ response = [i \in Calls |-> "none"]
  /\ failedStreak = 0
  /\ coolDownEnd = 0
  /\ probe = 0

InitApi == ApiIdle /\ ImgIdle /\ PlaceIdle /\ PixIdle /\ ConnIdle /\ SvcIdle /\ LateIdle

\* entry of request: the breaker check, then the first fetch is issued
Request(i, skipRetry) ==
  /\ pc[i] = "idle"
  /\ LET chk == isCircuitBreakerOpen(Breaker, now) IN
     /\ SetBreaker(chk.after)
     /\ IF chk.ret
        THEN UNCHANGED <<pc, attempt, retries, probe>>    \* the 503 answer
        ELSE /\ pc' = [pc EXCEPT ![i] = "fetch"]
             /\ attempt' = [attempt EXCEPT ![i] = 0]
             /\ retries' = [retries EXCEPT ![i] = IF skipRetry THEN 0 ELSE maxRetries]
             /\ probe' = IF circuitBreakerOpen THEN i ELSE probe
  /\ UNCHANGED <<now, response, failedStreak, coolDownEnd>>

\* the call returns: its locals are gone
Leave(i, outcome) ==
  /\ pc' = [pc EXCEPT ![i] = "idle"]
  /\ attempt' = [attempt EXCEPT ![i] = 0]
  /\ retries' = [retries EXCEPT ![i] = 0]
  /\ response' = [response EXCEPT ![i] = "none"]
  /\ probe' = IF probe # i THEN probe
              ELSE IF outcome = "failed" THEN -1 ELSE 0

\* the code after the loop: recordCircuitBreakerFailure() and the failure return
ReturnFailure(i) ==
  /\ SetBreaker(recordCircuitBreakerFailure(Breaker, now))
  /\ Leave(i, "failed")
  /\ failedStreak' = Min(failedStreak + 1, circuitBreakerThreshold)
  /\ coolDownEnd' =
       IF now < coolDownEnd
            \/ (~circuitBreakerOpen /\ recordCircuitBreakerFailure(Breaker, now).open)
       THEN now + circuitBreakerResetTime
       ELSE coolDownEnd
  /\ UNCHANGED now

\* variant: the loop allows one attempt more
CatchRetryable_oneMore(i) ==
  IF attempt[i] <= retries[i]
  THEN /\ pc' = [pc EXCEPT ![i] = "sleep"]
       /\ response' = [response EXCEPT ![i] = "none"]
       /\ UNCHANGED <<circuitBreakerFailures, circuitBreakerLastFailure,
                      circuitBreakerOpen, now, attempt, retries,
                      failedStreak, coolDownEnd, probe>>
  ELSE ReturnFailure(i)

\* the catch block of the loop for an error that is not a 4xx ApiError
CatchRetryable(i) ==
  IF attempt[i] < retries[i]
  THEN /\ pc' = [pc EXCEPT ![i] = "sleep"]
       /\ response' = [response EXCEPT ![i] = "none"]
       /\ UNCHANGED <<circuitBreakerFailures, circuitBreakerLastFailure,
                      circuitBreakerOpen, now, attempt, retries,
                      failedStreak, coolDownEnd, probe>>
  ELSE ReturnFailure(i)

\* fetchWithTimeout rejects: network error, or abort by the timeout
FetchRejects(i, kind) ==
  /\ pc[i] = "fetch"
  /\ kind \in {"network", "timeout"}
  /\ CatchRetryable(i)

\* fetchWithTimeout resolves with a response: resetCircuitBreaker() runs
\* before response.ok is looked at, then the body is awaited
FetchResolves(i, status) ==
  /\ pc[i] = "fetch"
  /\ SetBreaker(resetCircuitBreaker(Breaker))
  /\ pc' = [pc EXCEPT ![i] = "body"]
  /\ response' = [response EXCEPT ![i] = status]
  /\ failedStreak' = IF status = "ok" THEN 0 ELSE failedStreak
  /\ UNCHANGED <<now, attempt, retries, coolDownEnd, probe>>

\* response.json() / response.text() settles
BodyRead(i, readable) ==
  /\ pc[i] = "body"
  /\ IF ~readable
     THEN CatchRetryable(i)
     ELSE IF response[i] = "ok"
     THEN /\ Leave(i, "success")
          /\ UNCHANGED <<circuitBreakerFailures, circuitBreakerLastFailure,
                         circuitBreakerOpen, now, failedStreak, coolDownEnd>>
     ELSE IF response[i] = "4xx"
     THEN ReturnFailure(i)        \* ApiError with a 4xx status: break
     ELSE CatchRetryable(i)

\* the backoff sleep ends: next iteration, the next fetch is issued
SleepDone(i) ==
  /\ pc[i] = "sleep"
  /\ pc' = [pc EXCEPT ![i] = "fetch"]
  /\ attempt' = [attempt EXCEPT ![i] = attempt[i] + 1]
  /\ UNCHANGED <<circuitBreakerFailures, circuitBreakerLastFailure,
                 circuitBreakerOpen, now, retries, response,
                 failedStreak, coolDownEnd, probe>>

\* The clock advances.  Date.now() is read only by isCircuitBreakerOpen while
\* the breaker is open, and the time that recordCircuitBreakerFailure stores
\* is overwritten or cleared before it is read unless that call opens the
\* breaker; so only the time that passes while the breaker is open or its
\* cool-down runs is kept.
Tick ==
  /\ now < MaxTime
  /\ circuitBreakerOpen \/ now < coolDownEnd
  /\ now' = now + 1
  /\ coolDownEnd' = IF now + 1 >= coolDownEnd THEN 0 ELSE coolDownEnd
  /\ UNCHANGED <<circuitBreakerFailures, circuitBreakerLastFailure,
                 circuitBreakerOpen, pc, attempt, retries, response,
                 failedStreak, probe>>

NextApi ==
  \/ \E i \in Calls, s \in BOOLEAN : Request(i, s) /\ UNCHANGED notApi
  \/ \E i \in Calls, k \in {"network", "timeout"} :
        FetchRejects(i, k) /\ UNCHANGED notApi
  \/ \E i \in Calls, st \in {"ok", "4xx", "5xx"} :
        FetchResolves(i, st) /\ UNCHANGED notApi
  \/ \E i \in Calls, r \in BOOLEAN : BodyRead(i, r) /\ UNCHANGED notApi
  \/ \E i \in Calls : SleepDone(i) /\ UNCHANGED notApi
  \/ Tick /\ UNCHANGED notApi

SpecApi == InitApi /\ [][NextApi]_vars

(***************************************************************************)
(* Claims about the ApiClient.                                             *)
(***************************************************************************)
\* the call in slot i returns through the failure path in this step (the only
\* return that follows recordCircuitBreakerFailure)
ReturnsFailed(i) ==
  /\ pc[i] # "idle" /\ pc'[i] = "idle"
  /\ circuitBreakerFailures' = circuitBreakerFailures + 1

\* the breaker has opened and the cool-down counted from the last recorded
\* failure has not elapsed
InCoolDown == now < coolDownEnd

\* C1: the step in which the N-th consecutive failed call of request returns
\* (no ok response in between, whatever the kind of failure) leaves the
\* circuit breaker open.
C1_OpenAfterNFailures ==
  [][\A i \in Calls :
        (ReturnsFailed(i) /\ failedStreak' >= circuitBreakerThreshold)
          => circuitBreakerOpen']_vars

\* C3: from the moment the breaker opens until the cool-down has elapsed since
\* the last recorded failure, no call of request issues a fetch: an idle slot
\* that calls request stays idle (it gets the 503 answer).
C3_NoFetchDuringCoolDown ==
  [][\A i \in Calls : (InCoolDown /\ pc[i] = "idle") => pc'[i] = "idle"]_vars

\* C4 as stated: when the first call admitted after the cool-down fails, the
\* breaker is open again at once.
C4_HalfOpenReopens ==
  [][\A i \in Calls : (probe = i /\ ReturnsFailed(i)) => circuitBreakerOpen']_vars

\* C4 amended: the call admitted once the cool-down has elapsed closes the
\* breaker and clears the failure counter (no half-open state); when that
\* call fails the breaker is open exactly if the counter has climbed back to
\* the threshold since that reset.
C4_CoolDownClosesBreaker ==
  [][\A i \in Calls :
        /\ (circuitBreakerOpen /\ pc[i] = "idle" /\ pc'[i] = "fetch")
              => (~circuitBreakerOpen' /\ circuitBreakerFailures' = 0)
        /\ (probe = i /\ ReturnsFailed(i))
              => (circuitBreakerOpen'
                    <=> circuitBreakerFailures' >= circuitBreakerThreshold)]_vars

\* C4 witness: the call admitted after the cool-down has failed and the
\* breaker is still closed, one failure on the counter.
C4_Witness ==
  probe = -1 /\ ~circuitBreakerOpen /\ circuitBreakerFailures = 1

\* an attempt of the call is under way: its fetch is out or its body is read
AttemptUnderWay(i) == pc[i] \in {"fetch", "body"}

\* The abort timer of fetchWithTimeout is armed: setTimeout has run and the
\* finally block, which runs as soon as fetch settles, has not cleared it.
TimerArmed(i) == pc[i] = "fetch"

\* C14: through the whole of an attempt, from the fetch being issued until
\* the response body has been read, the timeout of the attempt is armed, so
\* that the attempt is aborted when the timeout runs out.
C14_TimeoutCoversAttempt ==
  \A i \in Calls : AttemptUnderWay(i) => TimerArmed(i)

\* C15: a call of request issues at most maxRetries + 1 fetches, and one
\* only when skipRetry is set: the attempt under way (attempts are numbered
\* from 0) is never beyond the retries allowed to the call.
C15_AtMostMaxRetriesPlusOne ==
  \A i \in Calls :
     /\ retries[i] \in {0, maxRetries}
     /\ attempt[i] + 1 <= retries[i] + 1
     /\ attempt[i] + 1 <= maxRetries + 1

\* C15 witness: a call has issued its last fetch, number maxRetries + 1, and
\* another call made with skipRetry has its only fetch out.
C15_Witness ==
  \E i, j \in Calls :
     /\ pc[i] = "fetch" /\ retries[i] = maxRetries /\ attempt[i] = maxRetries
     /\ pc[j] = "fetch" /\ retries[j] = 0 /\ maxRetries > 0

\* C24: a fetch that resolves with an HTTP error status (4xx or 5xx) leaves
\* the failure counter and the open flag of the circuit breaker as they were;
\* request resets the breaker only for a response with an ok status.
C24_ErrorResponseKeepsBreaker ==
  [][\A i \in Calls :
       (pc[i] = "fetch" /\ pc'[i] = "body" /\ response'[i] # "ok")
         => /\ circuitBreakerFailures' = circuitBreakerFailures
            /\ circuitBreakerOpen' = circuitBreakerOpen]_vars

(***************************************************************************)
(* Image requests: the generate-image handler, addLogoOverlay of           *)
(* utils/server/imageProcessor.ts and applyLogoOverlay of add-logo.ts.     *)
(* An image is its bytes (a name) and the logo layer drawn on it.          *)
(*   bytes: good (decodable), corrupt, garbled (a data URL whose prefix    *)
(*   was not stripped, read as base64), other (a second read of the same   *)
(*   address gave other content), placeholder.                             *)
(***************************************************************************)
Undefined == "undefined"
UndefinedNum == [num |-> FALSE, val |-> -1]

Decodable(b) == b \in {"good", "other", "placeholder"}

\* sharp metadata of the base image (metadata.width || 1080) and of the logos
BaseMeta == [width |-> 1080, height |-> 1080]
LogoMeta(variant) ==
  IF variant = "bw" THEN [width |-> 600, height |-> 200]
  ELSE [width |-> 500, height |-> 500]

\* destructuring defaults of the handler and of addLogoOverlay
Default(v, d) == IF v = Undefined THEN d ELSE v
DefaultNum(v, d) == IF v = UndefinedNum THEN Num(d) ELSE v

WithDefaults(r) ==
  [r EXCEPT !.style = Default(r.style, "isometric"),
            !.position = Default(r.position, "bottom-left"),
            !.logoSize = DefaultNum(r.logoSize, 35),
            !.logoOpacity = DefaultNum(r.logoOpacity, 85),
            !.logoRotation = DefaultNum(r.logoRotation, 0)]

validStyles == {"isometric", "newyork-cartoon", "minimalist-linkedin"}
validPositions == {"bottom-left", "bottom-right", "top-right"}

\* variant: the upper limit is not checked
OutOfRange_noUpperLimit(v, lo, hi) == ~v.num \/ v.val < lo

\* typeof v !== 'number' || v < lo || v > hi
OutOfRange(v, lo, hi) == ~v.num \/ v.val < lo \/ v.val > hi

Reject(st, c) == [status |-> st, code |-> c, imageUrl |-> NoRet]

\* the checks of the handler up to the first await, in the order of the code;
\* status 0: every check passed
validate(r0, key) ==
  LET r == WithDefaults(r0) IN
  IF r.method # "POST" THEN Reject(405, "METHOD_NOT_ALLOWED")
  ELSE IF r.prompt = "missing" THEN Reject(400, "MISSING_PROMPT")
  ELSE IF r.prompt = "blank" THEN Reject(400, "INVALID_PROMPT")
  ELSE IF r.prompt = "long" THEN Reject(400, "PROMPT_TOO_LONG")
  ELSE IF r.style \notin validStyles THEN Reject(400, "INVALID_STYLE")
  ELSE IF r.position \notin validPositions THEN Reject(400, "INVALID_POSITION")
  ELSE IF OutOfRange(r.logoSize, 10, 100) THEN Reject(400, "INVALID_LOGO_SIZE")
  ELSE IF OutOfRange(r.logoOpacity, 0, 100) THEN Reject(400, "INVALID_LOGO_OPACITY")
  ELSE IF OutOfRange(r.logoRotation, -180, 180)
       THEN Reject(400, "INVALID_LOGO_ROTATION")
  ELSE IF ~key THEN Reject(500, "NO_API_KEY")
  ELSE Reject(0, "none")

\* ---- the inputs tried ----
Prompts == {"missing", "blank", "long", "ok"}
StylesTried == {"isometric", "newyork-cartoon", "pop-art", Undefined}
PositionsTried == {"bottom-right", "top-right", "top-left", Undefined}
SizesTried == {Num(9), Num(35), Num(101), NotANumber, UndefinedNum}
OpacitiesTried == {Num(-1), Num(50), Num(100), Num(101)}
RotationsTried == {Num(-181), Num(0), Num(90), Num(181)}

HandlerRequests ==
  [method : {"POST", "GET"}, prompt : Prompts, style : StylesTried,
   position : PositionsTried, logoSize : SizesTried,
   logoOpacity : OpacitiesTried, logoRotation : RotationsTried]

\* options of a direct call of addLogoOverlay (already valid)
DirectOptions ==
  [method : {"none"}, prompt : {"none"},
   style : {"isometric", "newyork-cartoon", Undefined},
   position : {"bottom-left", "top-right"}, logoSize : {Num(35)},
   logoOpacity : {Num(50), Num(100)}, logoRotation : {Num(0), Num(90)}]

\* base images handed to a direct call or to applyLogoOverlay
Sources ==
  [kind : {"dataurl"}, mime : {"png", "jpeg", "svg+xml"}, bytes : {"good", "corrupt"}]
    \cup [kind : {"http", "path", "buffer"}, mime : {"none"}, bytes : {"good", "corrupt"}]

InitImg ==
  /\ entry \in {"handler", "direct", "canvas"}
  /\ apiKey \in (IF entry = "handler" THEN BOOLEAN ELSE {FALSE})
  /\ logoBW \in (IF entry = "canvas" THEN {FALSE} ELSE BOOLEAN)
  /\ logoSquare \in BOOLEAN
  /\ req \in (IF entry = "handler" THEN HandlerRequests ELSE DirectOptions)
  /\ entry = "canvas" =>
       (req.position = "bottom-left" /\ req.logoOpacity = Num(100)
          /\ req.logoRotation = Num(0) /\ req.style # Undefined)
  /\ src \in (IF entry = "handler" THEN {NoSrc} ELSE Sources)
  /\ ipc = (CASE entry = "handler" -> "h_start"
              [] entry = "direct" -> "ov_load"
              [] OTHER -> "canvas")
  /\ phase = (IF entry = "direct" THEN "direct" ELSE "none")
  /\ buf = "none" /\ layer = NoLayer /\ ret = NoRet /\ res = NoRes
  /\ ran = <<>> /\ thrown = "none"
  /\ ApiIdle /\ PlaceIdle /\ PixIdle /\ ConnIdle /\ SvcIdle /\ LateIdle

imgStatic == <<entry, apiKey, logoBW, logoSquare, req>>

\* ---- the handler of generate-image ----
\* method check, validation, API key check; then the provider is called
HandleRequest ==
  /\ ipc = "h_start"
  /\ LET v == validate(req, apiKey) IN
     IF v.status # 0
     THEN /\ res' = v /\ ipc' = "done" /\ ran' = ran
     ELSE /\ res' = res /\ ipc' = "h_gemini" /\ ran' = Append(ran, "provider")
  /\ UNCHANGED <<imgStatic, phase, src, buf, layer, ret, thrown>>

\* axios.post settles: an image part with data (of any content), a response
\* without image, or an error
GeminiSettles(outcome) ==
  /\ ipc = "h_gemini"
  /\ IF outcome \in {"good", "corrupt"}
     THEN /\ src' = [kind |-> "dataurl", mime |-> "png", bytes |-> outcome]
          /\ phase' = "gemini"
          /\ ipc' = "ov_load"
          /\ ran' = ran
     ELSE /\ ipc' = "h_placeholder"
          /\ ran' = Append(ran, "placeholder")
          /\ UNCHANGED <<src, phase>>
  /\ UNCHANGED <<imgStatic, buf, layer, ret, res, thrown>>

\* createPlaceholderImage settles; it throws when its own fallback fails too
PlaceholderSettles(ok) ==
  /\ ipc = "h_placeholder"
  /\ IF ok
     THEN /\ src' = [kind |-> "dataurl", mime |-> "png", bytes |-> "placeholder"]
          /\ phase' = "placeholder"
          /\ ipc' = "ov_load"
          /\ res' = res
     ELSE /\ res' = Reject(500, "INTERNAL")
          /\ ipc' = "done"
          /\ UNCHANGED <<src, phase>>
  /\ buf' = "none" /\ layer' = NoLayer /\ ret' = NoRet /\ thrown' = "none"
  /\ UNCHANGED <<imgStatic, ran>>

(***************************************************************************)
(* The placement calculator (imageProcessor.ts, calculateLogoPlacement).   *)
(* The numbers of the code are doubles; here they are exact fractions:     *)
(* scaledWidth is kept as hundredths (scaledWidth100 / 100), scaledHeight  *)
(* as scaledWidth100 * logoHeight / (100 * logoWidth).                     *)
(***************************************************************************)
margin == 20

\* variant: truncation instead of rounding to the nearest integer
MathRound_floor(n, d) == n \div d

\* Math.round(n / d) for d > 0: the nearest integer, a tie goes up
MathRound(n, d) == (2 * n + d) \div (2 * d)

\* variant: a 100 px floor
scaledWidth100_floor100(imageWidth, logoSize) == Max(100 * 100, imageWidth * logoSize)

\* variant: no 200 px floor
scaledWidth100_noFloor(imageWidth, logoSize) == imageWidth * logoSize

\* const scaledWidth = Math.max(200, imageWidth * (logoSize / 100)), times 100
scaledWidth100(imageWidth, logoSize) == Max(200 * 100, imageWidth * logoSize)

\* variant: the right-hand corners leave no margin
calculateLogoPlacement_noRightMargin(a) ==
  LET sw100 == scaledWidth100(a.imageWidth, a.logoSize)
      shNum == a.logoHeight * sw100
      shDen == a.logoWidth * 100
      right == MathRound(100 * a.imageWidth - sw100, 100)
      bottom == MathRound(shDen * (a.imageHeight - margin) - shNum, shDen)
      w == MathRound(sw100, 100)
      h == MathRound(shNum, shDen)
  IN CASE a.position = "bottom-right" ->
            [x |-> right, y |-> bottom, width |-> w, height |-> h]
       [] a.position = "top-right" ->
            [x |-> right, y |-> margin, width |-> w, height |-> h]
       [] OTHER ->
            [x |-> margin, y |-> bottom, width |-> w, height |-> h]

calculateLogoPlacement(a) ==
  LET sw100 == scaledWidth100(a.imageWidth, a.logoSize)
      \* scaledHeight = shNum / shDen
      shNum == a.logoHeight * sw100
      shDen == a.logoWidth * 100
      right == MathRound(100 * a.imageWidth - sw100 - 100 * margin, 100)
      bottom == MathRound(shDen * (a.imageHeight - margin) - shNum, shDen)
      w == MathRound(sw100, 100)
      h == MathRound(shNum, shDen)
  IN CASE a.position = "bottom-right" ->
            [x |-> right, y |-> bottom, width |-> w, height |-> h]
       [] a.position = "top-right" ->
            [x |-> right, y |-> margin, width |-> w, height |-> h]
       [] OTHER ->
            [x |-> margin, y |-> bottom, width |-> w, height |-> h]

\* the inputs tried
ImageWidths == {400, 1080, 1081}
ImageHeights == {400, 1080}
LogoDims == {<<200, 200>>, <<600, 200>>, <<200, 601>>}
Positions == {"bottom-left", "bottom-right", "top-right"}
LogoSizes == {10, 25, 35, 50, 100}

PlaceInputs ==
  [imageWidth : ImageWidths, imageHeight : ImageHeights,
   logoWidth : {d[1] : d \in LogoDims}, logoHeight : {d[2] : d \in LogoDims},
   position : Positions, logoSize : LogoSizes]

InitPlace ==
  /\ placeIn \in PlaceInputs
  /\ <<placeIn.logoWidth, placeIn.logoHeight>> \in LogoDims
  /\ placeOut = NoPlace
  /\ ApiIdle /\ ImgIdle /\ PixIdle /\ ConnIdle /\ SvcIdle /\ LateIdle

Calculate ==
  /\ placeOut = NoPlace
  /\ placeOut' = calculateLogoPlacement(placeIn)
  /\ UNCHANGED placeIn /\ UNCHANGED notPlace

\* the next call, with other arguments
NextCall ==
  /\ placeOut # NoPlace
  /\ placeIn' \in PlaceInputs
  /\ <<placeIn'.logoWidth, placeIn'.logoHeight>> \in LogoDims
  /\ placeOut' = NoPlace
  /\ UNCHANGED notPlace

NextPlace == Calculate \/ NextCall

SpecPlace == InitPlace /\ [][NextPlace]_vars

Placed == placeOut # NoPlace

\* C9: the box returned by the placement calculator has x >= 0 and y >= 0,
\* for every base image size, logo size, corner and size percent.
C9_BoxNotNegative == Placed => (placeOut.x >= 0 /\ placeOut.y >= 0)

\* C10 as stated: for every size percent in 10..100 the width is at least the
\* larger of 200 px and 25% of the base image width.
C10_FloorQuarterWidth ==
  (Placed /\ placeIn.logoSize \in 10..100)
    => (placeOut.width >= 200 /\ 4 * placeOut.width >= placeIn.imageWidth)

\* C10 amended: the width is at least 200 px for every size percent, and at
\* least 25% of the base image width (to the nearest pixel) when the size
\* percent is 25 or more.
C10_FloorTwoHundred ==
  (Placed /\ placeIn.logoSize \in 10..100)
    => /\ placeOut.width >= 200
       /\ placeIn.logoSize >= 25
            => 100 * placeOut.width + 50 >= 25 * placeIn.imageWidth

\* C10 witness: size 10% on a 1080 px wide image gives the 200 px floor, which
\* is less than 25% of the width.
C10_Witness ==
  /\ Placed /\ placeIn.logoSize = 10 /\ placeIn.imageWidth = 1080
  /\ placeOut.width = 200

Abs(n) == IF n < 0 THEN -n ELSE n

\* C11 as stated: the returned box keeps the logo's aspect ratio to within 1 px:
\* |height - width * logoHeight / logoWidth| <= 1.
C11_AspectRatioWithinOnePixel ==
  Placed => Abs(placeOut.height * placeIn.logoWidth
                  - placeOut.width * placeIn.logoHeight) <= placeIn.logoWidth

\* C11 amended: the returned height is the exact scaled height (the unrounded
\* scaled width times logoHeight / logoWidth) rounded to the nearest pixel;
\* against the rounded width the aspect ratio is kept to within
\* 1/2 + logoHeight / (2 * logoWidth) px, which is within 1 px for every logo
\* that is not taller than it is wide.
C11_HeightIsRoundedScaled ==
  Placed =>
    LET sw100 == Max(200 * 100, placeIn.imageWidth * placeIn.logoSize)
        skew == Abs(placeOut.height * placeIn.logoWidth
                      - placeOut.width * placeIn.logoHeight)
    IN /\ 2 * Abs(100 * placeIn.logoWidth * placeOut.height
                      - placeIn.logoHeight * sw100) <= 100 * placeIn.logoWidth
       /\ 2 * skew <= placeIn.logoWidth + placeIn.logoHeight
       /\ placeIn.logoHeight <= placeIn.logoWidth => skew <= placeIn.logoWidth

\* C11 witness: a logo taller than wide whose box is off the aspect ratio of
\* the rounded width by more than 1 px.
C11_Witness ==
  /\ Placed /\ placeIn.logoHeight > placeIn.logoWidth
  /\ Abs(placeOut.height * placeIn.logoWidth
            - placeOut.width * placeIn.logoHeight) > placeIn.logoWidth

\* C18 as stated: the returned width is at least
\* max(200, imageWidth * logoSize / 100).
C18_WidthAtLeastScaled ==
  Placed => 100 * placeOut.width >= Max(200 * 100, placeIn.imageWidth * placeIn.logoSize)

\* C18 amended: the returned width is max(200, imageWidth * logoSize / 100)
\* rounded to the nearest pixel, so it is never less than 200 and at most
\* half a pixel below the scaled width; size 10% on a 1080 px wide image
\* gives exactly 200.
C18_WidthIsRoundedScaled ==
  Placed =>
    LET m100 == Max(200 * 100, placeIn.imageWidth * placeIn.logoSize) IN
    /\ placeOut.width >= 200
    /\ 100 * placeOut.width + 50 >= m100
    /\ 100 * placeOut.width - 50 <= m100
    /\ (placeIn.imageWidth = 1080 /\ placeIn.logoSize = 10) => placeOut.width = 200

\* C18 witness: 35% of 1081 px is 378.35 px and the width returned is 378.
C18_Witness ==
  /\ Placed /\ placeIn.imageWidth = 1081 /\ placeIn.logoSize = 35
  /\ placeOut.width = 378

\* C19: for bottom-right, x + width + 20 is the base width to within one
\* pixel of rounding; for bottom-left and top-right one of x and y is 20.
C19_CornerPlacement ==
  Placed =>
    /\ placeIn.position = "bottom-right"
          => Abs(placeOut.x + placeOut.width + 20 - placeIn.imageWidth) <= 1
    /\ placeIn.position \in {"bottom-left", "top-right"}
          => (placeOut.x = 20 \/ placeOut.y = 20)

\* C19 witness: a bottom-right box whose scaled width ends in half a pixel
\* (50% of 1081 px), so that x and width both round up.
C19_Witness ==
  /\ Placed /\ placeIn.position = "bottom-right"
  /\ placeOut.x + placeOut.width + 20 = placeIn.imageWidth + 1

(***************************************************************************)
(* addLogoOverlay (imageProcessor.ts), one action per stage.               *)
(***************************************************************************)
opts == WithDefaults(req)

\* loadImage for the sources that need no I/O
loadInline(source) ==
  IF source.kind = "buffer" THEN source.bytes
  ELSE IF source.mime \in {"png", "jpeg"}   \* /^data:image\/[a-z]+;base64,/
       THEN source.bytes
       ELSE "garbled"

\* `data:image/png;base64,${buffer.toString('base64')}`
pngDataUrl(bytes, l) == [tag |-> "string", mime |-> "png", bytes |-> bytes, layer |-> l]

\* getLogoPath(style), as the variant it names
getLogoPath(style, bwExists) ==
  IF style = "newyork-cartoon" /\ bwExists THEN "bw" ELSE "square"

\* variant: the existence of the file is not checked
logoExists_unchecked(variant) == TRUE

\* fs.existsSync(logoPath)
logoExists(variant) == IF variant = "bw" THEN logoBW ELSE logoSquare

\* addLogoOverlay settles with r; the awaiting handler goes on
Return(r) ==
  /\ ret' = r
  /\ IF entry # "handler"
     THEN ipc' = "done" /\ res' = res
     ELSE IF r.tag = "string"
     THEN /\ ipc' = "done"
          /\ res' = [status |-> 200, code |-> "none", imageUrl |-> r]
     ELSE IF phase = "gemini"
     THEN ipc' = "h_placeholder" /\ res' = res
     ELSE ipc' = "done" /\ res' = Reject(500, "INTERNAL")

\* variant: the catch block passes the error on
Catch_rethrow(stage) ==
  /\ thrown' = stage
  /\ Return([tag |-> "throw", mime |-> "none", bytes |-> "none", layer |-> NoLayer])

\* the catch block of addLogoOverlay, entered from `stage`
Catch(stage) ==
  /\ thrown' = stage
  /\ IF src.kind = "dataurl"
     THEN Return([tag |-> "string", mime |-> src.mime, bytes |-> src.bytes,
                  layer |-> NoLayer])
     ELSE IF src.kind = "buffer"
     THEN Return(pngDataUrl(src.bytes, NoLayer))
     ELSE ipc' = "ov_reload" /\ UNCHANGED <<ret, res>>

\* a stage that went through
Proceed(next) == ipc' = next /\ UNCHANGED <<ret, res, thrown>>

\* const baseImageBuffer = await loadImage(baseImage)
OvLoad(io) ==
  /\ ipc = "ov_load"
  /\ ran' = Append(ran, "load")
  /\ IF src.kind \in {"dataurl", "buffer"}
     THEN buf' = loadInline(src) /\ Proceed("ov_decode")
     ELSE IF io = "ok"
     THEN buf' = src.bytes /\ Proceed("ov_decode")
     ELSE buf' = buf /\ Catch("load")
  /\ UNCHANGED <<imgStatic, phase, src, layer>>

\* await baseImageSharp.metadata(): decodes the header of the base image
OvDecode ==
  /\ ipc = "ov_decode"
  /\ ran' = Append(ran, "decode")
  /\ IF Decodable(buf) THEN Proceed("ov_resolve") ELSE Catch("decode")
  /\ UNCHANGED <<imgStatic, phase, src, buf, layer>>

\* getLogoPath and fs.existsSync; a missing file returns the base image
OvResolve ==
  /\ ipc = "ov_resolve"
  /\ ran' = Append(ran, "resolve")
  /\ LET variant == getLogoPath(opts.style, logoBW) IN
     IF logoExists(variant)
     THEN /\ layer' = [layer EXCEPT !.variant = variant]
          /\ Proceed("ov_logo")
     ELSE /\ layer' = layer
          /\ thrown' = thrown
          /\ Return(pngDataUrl(buf, NoLayer))
  /\ UNCHANGED <<imgStatic, phase, src, buf>>

\* fs.readFileSync(logoPath) and await logoSharp.metadata()
OvLoadLogo(ok) ==
  /\ ipc = "ov_logo"
  /\ ran' = Append(ran, "logo")
  /\ IF ok THEN Proceed("ov_place") ELSE Catch("logo")
  /\ UNCHANGED <<imgStatic, phase, src, buf, layer>>

OvPlacement ==
  /\ ipc = "ov_place"
  /\ ran' = Append(ran, "placement")
  /\ LET m == LogoMeta(layer.variant)
         b == calculateLogoPlacement(
                [imageWidth |-> BaseMeta.width, imageHeight |-> BaseMeta.height,
                 logoWidth |-> m.width, logoHeight |-> m.height,
                 position |-> opts.position, logoSize |-> opts.logoSize.val])
     IN layer' = [layer EXCEPT !.box = <<b.x, b.y, b.width, b.height>>]
  /\ Proceed("ov_resize")
  /\ UNCHANGED <<imgStatic, phase, src, buf>>

\* logoSharp.resize(placement.width, placement.height, ...)
OvResize(ok) ==
  /\ ipc = "ov_resize"
  /\ ran' = Append(ran, "resize")
  /\ IF ok THEN Proceed("ov_style") ELSE Catch("resize")
  /\ UNCHANGED <<imgStatic, phase, src, buf, layer>>

\* variant: the style transform is left out
OvStyle_skipped(ok) ==
  /\ ipc = "ov_style"
  /\ ran' = ran /\ layer' = layer /\ Proceed("ov_rotate")
  /\ UNCHANGED <<imgStatic, phase, src, buf>>

\* if (style === 'newyork-cartoon') greyscale().threshold(128)
OvStyle(ok) ==
  /\ ipc = "ov_style"
  /\ IF opts.style # "newyork-cartoon"
     THEN ran' = ran /\ layer' = layer /\ Proceed("ov_rotate")
     ELSE /\ ran' = Append(ran, "style")
          /\ IF ok
             THEN layer' = [layer EXCEPT !.bw = TRUE] /\ Proceed("ov_rotate")
             ELSE layer' = layer /\ Catch("style")
  /\ UNCHANGED <<imgStatic, phase, src, buf>>

\* if (logoRotation !== 0) rotate(logoRotation, ...); then the logo is encoded
OvRotate(ok) ==
  /\ ipc = "ov_rotate"
  /\ IF opts.logoRotation.val = 0
     THEN ran' = ran /\ layer' = layer /\ Proceed("ov_opacity")
     ELSE /\ ran' = Append(ran, "rotate")
          /\ IF ok
             THEN /\ layer' = [layer EXCEPT !.rotation = opts.logoRotation.val]
                  /\ Proceed("ov_opacity")
             ELSE layer' = layer /\ Catch("rotate")
  /\ UNCHANGED <<imgStatic, phase, src, buf>>

\* variant: the alpha channel is rewritten at 100% too
OvOpacity_always(ok) ==
  /\ ipc = "ov_opacity"
  /\ ran' = Append(ran, "opacity")
  /\ IF ok
     THEN /\ layer' = [layer EXCEPT !.opacity = opts.logoOpacity.val]
          /\ Proceed("ov_composite")
     ELSE layer' = layer /\ Catch("opacity")
  /\ UNCHANGED <<imgStatic, phase, src, buf>>

\* if (logoOpacity < 100) the alpha channel is scaled
OvOpacity(ok) ==
  /\ ipc = "ov_opacity"
  /\ IF ~(opts.logoOpacity.val < 100)
     THEN ran' = ran /\ layer' = layer /\ Proceed("ov_composite")
     ELSE /\ ran' = Append(ran, "opacity")
          /\ IF ok
             THEN /\ layer' = [layer EXCEPT !.opacity = opts.logoOpacity.val]
                  /\ Proceed("ov_composite")
             ELSE layer' = layer /\ Catch("opacity")
  /\ UNCHANGED <<imgStatic, phase, src, buf>>

\* variant: every style is composited with alpha-over
OvComposite_over(ok) ==
  /\ ipc = "ov_composite"
  /\ ran' = Append(ran, "composite")
  /\ LET final == [layer EXCEPT !.blend = "over"]
     IN IF ok
        THEN layer' = final /\ thrown' = thrown /\ Return(pngDataUrl(buf, final))
        ELSE layer' = layer /\ Catch("composite")
  /\ UNCHANGED <<imgStatic, phase, src, buf>>

\* baseImageSharp.composite([...]).png().toBuffer() and the data URL returned
OvComposite(ok) ==
  /\ ipc = "ov_composite"
  /\ ran' = Append(ran, "composite")
  /\ LET blend == IF opts.style = "newyork-cartoon" THEN "multiply" ELSE "over"
         final == [layer EXCEPT !.blend = blend]
     IN IF ok
        THEN layer' = final /\ thrown' = thrown /\ Return(pngDataUrl(buf, final))
        ELSE layer' = layer /\ Catch("composite")
  /\ UNCHANGED <<imgStatic, phase, src, buf>>

\* in the catch block: await loadImage(baseImage) for an address or a path
OvReload(io) ==
  /\ ipc = "ov_reload"
  /\ ran' = Append(ran, "reload")
  /\ IF io = "fail"
     THEN Return([tag |-> "throw", mime |-> "none", bytes |-> "none",
                  layer |-> NoLayer])
     ELSE Return(pngDataUrl(IF io = "ok" THEN src.bytes ELSE "other", NoLayer))
  /\ UNCHANGED <<imgStatic, phase, src, buf, layer, thrown>>

(***************************************************************************)
(* applyLogoOverlay (add-logo.ts): the canvas based overlay, as a whole.   *)
(* The box of its layer is in hundredths of a pixel.                       *)
(***************************************************************************)
\* Math.max(200, image.width * 0.25), times 100
canvasLogoWidth100(imageWidth) == Max(200 * 100, imageWidth * 25)

applyLogoOverlay(source, style, squareExists, logoLoads) ==
  LET failed == [tag |-> "throw", mime |-> "none", bytes |-> "none", layer |-> NoLayer]
      w100 == canvasLogoWidth100(BaseMeta.width)
      h100 == (LogoMeta("square").height * w100) \div LogoMeta("square").width
  IN IF source.kind # "dataurl" \/ source.mime \notin {"png", "jpeg"}
     THEN failed                             \* 'Invalid image format'
     ELSE IF ~Decodable(source.bytes) THEN failed
     ELSE IF ~squareExists
     THEN pngDataUrl(source.bytes,
            [NoLayer EXCEPT !.variant = "text",
                            !.box = <<margin * 100,
                                      (BaseMeta.height - 60) * 100, 0, 0>>,
                            !.bw = (style = "newyork-cartoon"),
                            !.blend = "over"])
     ELSE IF ~logoLoads THEN failed
     ELSE pngDataUrl(source.bytes,
            [NoLayer EXCEPT !.variant = "square",
                            !.box = <<margin * 100,
                                      BaseMeta.height * 100 - h100 - margin * 100,
                                      w100, h100>>,
                            !.bw = (style = "newyork-cartoon"),
                            !.blend = "over"])

CanvasOverlay(logoLoads) ==
  /\ ipc = "canvas"
  /\ ret' = applyLogoOverlay(src, opts.style, logoSquare, logoLoads)
  /\ ipc' = "done"
  /\ ran' = Append(ran, "canvas")
  /\ UNCHANGED <<imgStatic, phase, src, buf, layer, res, thrown>>

IO == {"ok", "fail", "changed"}

NextImg ==
  \/ HandleRequest /\ UNCHANGED notImg
  \/ \E o \in {"good", "corrupt", "no_image", "error"} :
        GeminiSettles(o) /\ UNCHANGED notImg
  \/ \E ok \in BOOLEAN : PlaceholderSettles(ok) /\ UNCHANGED notImg
  \/ \E io \in IO : OvLoad(io) /\ UNCHANGED notImg
  \/ OvDecode /\ UNCHANGED notImg
  \/ OvResolve /\ UNCHANGED notImg
  \/ \E ok \in BOOLEAN : OvLoadLogo(ok) /\ UNCHANGED notImg
  \/ OvPlacement /\ UNCHANGED notImg
  \/ \E ok \in BOOLEAN : OvResize(ok) /\ UNCHANGED notImg
  \/ \E ok \in BOOLEAN : OvStyle(ok) /\ UNCHANGED notImg
  \/ \E ok \in BOOLEAN : OvRotate(ok) /\ UNCHANGED notImg
  \/ \E ok \in BOOLEAN : OvOpacity(ok) /\ UNCHANGED notImg
  \/ \E ok \in BOOLEAN : OvComposite(ok) /\ UNCHANGED notImg
  \/ \E io \in IO : OvReload(io) /\ UNCHANGED notImg
  \/ \E ok \in BOOLEAN : CanvasOverlay(ok) /\ UNCHANGED notImg

SpecImg == InitImg /\ [][NextImg]_vars

(***************************************************************************)
(* Claims about the image requests.                                        *)
(***************************************************************************)
Returned == ipc = "done" /\ ret.tag # "pending"
HandlerDone == entry = "handler" /\ ipc = "done"
StagesRun == {ran[k] : k \in 1..Len(ran)}

\* C2: when the base image cannot be decoded, addLogoOverlay fails with an
\* error to its caller and returns no image string.
C2_DecodeFailureIsFatal ==
  (entry # "canvas" /\ Returned /\ thrown = "decode") => ret.tag = "throw"

\* the request fails one of the checks on the method or on a body field
InvalidRequest == validate(req, TRUE).status # 0

\* C5 as stated: the generate-image handler answers with an error only when
\* request validation fails or the base image cannot be decoded; every other
\* request gets status 200 and an imageUrl.
C5_ErrorOnlyIfInvalidOrUndecodable ==
  (HandlerDone /\ ~InvalidRequest /\ thrown # "decode")
    => (res.status = 200 /\ res.imageUrl.tag = "string")

\* createPlaceholderImage was called and threw
PlaceholderFailed == "placeholder" \in StagesRun /\ phase # "placeholder"

\* C5 amended: the handler answers with an error only when request validation
\* fails (method or body field), when the base image cannot be decoded, when
\* the API key is not configured, or when the placeholder image cannot be
\* created after a provider failure; every other request gets status 200 and
\* an imageUrl.
C5_ErrorOnlyIfRejectedOrUnconfigured ==
  (HandlerDone /\ ~InvalidRequest /\ thrown # "decode"
     /\ apiKey /\ ~PlaceholderFailed)
    => (res.status = 200 /\ res.imageUrl.tag = "string")

\* C5 witness: a valid request answered with 500 because no API key is set.
C5_Witness ==
  HandlerDone /\ ~InvalidRequest /\ ~apiKey /\ res.status = 500
    /\ res.code = "NO_API_KEY" /\ ran = <<>>

\* a field of the body is outside its allowed values (after the defaults)
FieldOutOfRange ==
  LET r == WithDefaults(req) IN
  \/ r.style \notin {"isometric", "newyork-cartoon", "minimalist-linkedin"}
  \/ r.position \notin {"bottom-left", "bottom-right", "top-right"}
  \/ ~r.logoSize.num \/ r.logoSize.val < 10 \/ r.logoSize.val > 100
  \/ ~r.logoOpacity.num \/ r.logoOpacity.val < 0 \/ r.logoOpacity.val > 100
  \/ ~r.logoRotation.num \/ r.logoRotation.val < -180 \/ r.logoRotation.val > 180

\* C6: a request with style, position, logo size, opacity or rotation outside
\* its allowed values is rejected before any stage runs: the provider is not
\* called, nothing is loaded, transformed or composited, and the answer is an
\* error.
C6_InvalidRejectedBeforePipeline ==
  (entry = "handler" /\ FieldOutOfRange)
    => /\ ran = <<>> /\ buf = "none" /\ layer = NoLayer /\ ret = NoRet
       /\ ipc \in {"h_start", "done"}
       /\ ipc = "done" => res.status \in {400, 405}

\* C6 witness: a POST with a good prompt whose only fault is the rotation has
\* been answered with INVALID_LOGO_ROTATION.
C6_Witness ==
  /\ HandlerDone /\ apiKey /\ req.method = "POST" /\ req.prompt = "ok"
  /\ req.logoRotation = Num(181) /\ res.code = "INVALID_LOGO_ROTATION"
  /\ res.status = 400

\* the logo file the run would use is not on disk
LogoFileAbsent ==
  IF entry = "canvas" THEN ~logoSquare
  ELSE ~((opts.style = "newyork-cartoon" /\ logoBW) \/ logoSquare)

\* the base image was loaded and decoded
BaseDecoded ==
  IF entry = "canvas"
  THEN src.kind = "dataurl" /\ src.mime \in {"png", "jpeg"} /\ Decodable(src.bytes)
  ELSE "resolve" \in StagesRun

\* the bytes of the decoded base image
BaseBytes == IF entry = "canvas" THEN src.bytes ELSE buf

\* C7 as stated: with the logo file absent, the overlay step returns the
\* decoded base image unchanged, nothing drawn on it, and no error.
C7_MissingLogoReturnsBase ==
  (Returned /\ LogoFileAbsent /\ BaseDecoded)
    => (ret.tag = "string" /\ ret.bytes = BaseBytes /\ ret.layer = NoLayer)

\* C7 amended: with the logo file absent, addLogoOverlay of the server-side
\* pipeline returns the decoded base image unchanged, nothing drawn, no
\* error; applyLogoOverlay of add-logo returns, also without error, the base
\* image with a text logo drawn on it.
C7_MissingLogoDegrades ==
  (Returned /\ LogoFileAbsent /\ BaseDecoded)
    => /\ ret.tag = "string" /\ ret.bytes = BaseBytes
       /\ IF entry = "canvas" THEN ret.layer.variant = "text"
                              ELSE ret.layer = NoLayer

\* C7 witness: addLogoOverlay has returned the bare base image because the
\* logo file was missing.
C7_Witness ==
  /\ entry = "direct" /\ Returned /\ LogoFileAbsent /\ BaseDecoded
  /\ thrown = "none" /\ ret.layer = NoLayer /\ ret.bytes = "good"

\* C8: when a step after the load of the base image (resize, style transform,
\* rotation, opacity, blend) raises an error, addLogoOverlay returns the
\* original base image, unmodified, and no error reaches its caller.
C8_CompositingErrorReturnsBase ==
  (entry # "canvas" /\ Returned
     /\ thrown \in {"resize", "style", "rotate", "opacity", "composite"})
    => (ret.tag = "string" /\ ret.bytes = buf /\ ret.layer = NoLayer)

\* the stages of addLogoOverlay in the order of the pipeline
StageOrder == <<"load", "decode", "resolve", "logo", "placement", "resize",
                "style", "rotate", "opacity", "composite">>
StageRank(st) == CHOOSE k \in 1..Len(StageOrder) : StageOrder[k] = st
IsStage(st) == \E k \in 1..Len(StageOrder) : StageOrder[k] = st

\* addLogoOverlay has returned an image with the logo composited on it
Composited == entry # "canvas" /\ Returned /\ ret.layer.blend # "none"

C21_FullOpacitySkipsStage ==
  (entry # "canvas" /\ Returned /\ opts.logoOpacity.val = 100)
    => /\ "opacity" \notin StagesRun
       /\ ret.layer.opacity = NoLayer.opacity
       /\ Composited
            => ret = pngDataUrl(buf,
                       [layer EXCEPT !.opacity = NoLayer.opacity])

\* C21 witness: a logo was composited at 100% opacity.
C21_Witness ==
  /\ Composited /\ opts.logoOpacity.val = 100 /\ thrown = "none"
  /\ "opacity" \notin StagesRun /\ ret.layer.opacity = 100

White == [r |-> 255, g |-> 255, b |-> 255, a |-> 255]
Grey(v, alpha) == [r |-> v, g |-> v, b |-> v, a |-> alpha]

\* Math.round(0.299 * r + 0.587 * g + 0.114 * b)
gray(r, g, b) == MathRound(299 * r + 587 * g + 114 * b, 1000)

\* Math.abs(r - g) + Math.abs(g - b) + Math.abs(b - r)
colorfulness(r, g, b) == Abs(r - g) + Abs(g - b) + Abs(b - r)

\* imageProcessor.ts: greyscale().threshold(128) on a grey pixel; the alpha
\* channel is either left alone or thresholded like the other channels,
\* depending on the version of the library
styleSharp(p, alphaThresholded) ==
  Grey(IF p.g >= 128 THEN 255 ELSE 0,
       IF alphaThresholded THEN (IF p.a >= 128 THEN 255 ELSE 0) ELSE p.a)

\* add-logo.ts: the logo is drawn on an empty canvas and its pixels are read
\* back (a fully transparent pixel reads as 0, 0, 0, 0); alpha is not written
styleCanvas(p) ==
  LET q == IF p.a = 0 THEN [p EXCEPT !.r = 0, !.g = 0, !.b = 0] ELSE p
  IN Grey(IF gray(q.r, q.g, q.b) > 128 THEN 255 ELSE 0, q.a)

\* the channel c drawn with alpha a over the white fill of the logo canvas
overWhite(c, a) == MathRound(c * a + 255 * (255 - a), 255)

\* the older canvas overlay: white fill, the logo drawn over it, the two-rule
\* threshold, then a black border stroked on the edge of the logo canvas
styleLegacy(p) ==
  LET r == overWhite(p.r, p.a)
      g == overWhite(p.g, p.a)
      b == overWhite(p.b, p.a)
      a == 255                       \* the canvas is opaque after the fill
      bw == IF gray(r, g, b) < 100 THEN 0
            ELSE IF gray(r, g, b) > 200
                 THEN (IF colorfulness(r, g, b) > 100 THEN 0 ELSE 255)
                 ELSE (IF colorfulness(r, g, b) > 50 THEN 0 ELSE 255)
  IN IF p.edge THEN Grey(0, 255)
     ELSE IF a < 10 THEN [r |-> 255, g |-> 255, b |-> 255, a |-> a]
     ELSE Grey(bw, a)

\* the style transform of implementation impl
styleTransform(impl, style, p, alphaThresholded) ==
  IF style # "newyork-cartoon" THEN [r |-> p.r, g |-> p.g, b |-> p.b, a |-> p.a]
  ELSE CASE impl = "sharp" -> styleSharp(p, alphaThresholded)
         [] impl = "canvas" -> styleCanvas(p)
         [] OTHER -> styleLegacy(p)

\* the (alpha, opacity) pairs whose double product alpha * (opacity / 100)
\* lies just below an exact half, so that Math.round goes down
RoundsDown ==
  {<<50, 29>>, <<90, 35>>, <<170, 35>>, <<150, 41>>, <<50, 57>>, <<150, 57>>,
   <<25, 58>>, <<150, 69>>, <<45, 70>>, <<85, 70>>, <<165, 70>>, <<175, 70>>,
   <<75, 82>>}

\* storing a number in a Buffer: ToUint8
Uint8(v) == v % 256

\* variant: the product is truncated
opacityAlpha_truncated(a, opacity) == Uint8((a * opacity) \div 100)

\* data[i] = Math.round(data[i] * opacityMultiplier)
opacityAlpha(a, opacity) ==
  Uint8(IF <<a, opacity>> \in RoundsDown
        THEN (a * opacity) \div 100
        ELSE MathRound(a * opacity, 100))

\* the pixels and options tried
PxAlphas == {0, 5, 9, 10, 50, 127, 128, 255}
PxColours == {<<0, 0, 0>>, <<128, 128, 128>>, <<255, 255, 255>>,
              <<20, 30, 90>>, <<255, 140, 0>>}
PxOpacities == {0, 29, 50, 85, 99, 100}

InitPixel ==
  /\ pxImpl \in {"sharp", "canvas", "legacy"}
  /\ pxStyle \in {"isometric", "newyork-cartoon"}
  /\ pxOpacity \in (IF pxImpl = "sharp" THEN PxOpacities ELSE {100})
  /\ \E c \in PxColours, al \in PxAlphas, e \in BOOLEAN :
        /\ pxImpl = "sharp" => (c[1] = c[2] /\ c[2] = c[3])
        /\ e => pxImpl = "legacy"
        /\ pxIn = [r |-> c[1], g |-> c[2], b |-> c[3], a |-> al, edge |-> e]
  /\ pxStyled = NoPixel /\ pxFaded = NoPixel /\ pxStage = "resized"
  /\ ApiIdle /\ ImgIdle /\ PlaceIdle /\ ConnIdle /\ SvcIdle /\ LateIdle

\* the style transform stage
PxStyle(alphaThresholded) ==
  /\ pxStage = "resized"
  /\ pxStyled' = styleTransform(pxImpl, pxStyle, pxIn, alphaThresholded)
  /\ pxStage' = "styled"
  /\ UNCHANGED <<pxImpl, pxStyle, pxOpacity, pxIn, pxFaded>>

\* the opacity stage of imageProcessor.ts: if (logoOpacity < 100) ...
PxOpacity ==
  /\ pxStage = "styled" /\ pxImpl = "sharp"
  /\ pxFaded' = IF pxOpacity < 100
                THEN [pxStyled EXCEPT !.a = opacityAlpha(pxStyled.a, pxOpacity)]
                ELSE pxStyled
  /\ pxStage' = "faded"
  /\ UNCHANGED <<pxImpl, pxStyle, pxOpacity, pxIn, pxStyled>>

NextPixel ==
  \/ \E t \in BOOLEAN : PxStyle(t) /\ UNCHANGED notPix
  \/ PxOpacity /\ UNCHANGED notPix

SpecPixel == InitPixel /\ [][NextPixel]_vars

\* C13: with the cartoon style a logo pixel whose alpha is near zero (below
\* 10) before the style transform leaves it opaque white.
C13_TransparentBecomesWhite ==
  (pxStage # "resized" /\ pxStyle = "newyork-cartoon" /\ pxIn.a < 10)
    => pxStyled = White

\* C20: after the opacity stage the alpha of the pixel is its alpha before
\* the stage times logoOpacity / 100, rounded to an integer (at most half
\* off) and within 0..255; the colour channels are untouched.
C20_AlphaScaledByOpacity ==
  pxStage = "faded" =>
    /\ 2 * Abs(100 * pxFaded.a - pxStyled.a * pxOpacity) <= 100
    /\ pxFaded.a \in 0..255
    /\ pxFaded.r = pxStyled.r /\ pxFaded.g = pxStyled.g /\ pxFaded.b = pxStyled.b

\* C20 witness: an opaque pixel at 85% opacity leaves the stage with alpha
\* 217 (216.75 rounded).
C20_Witness ==
  /\ pxStage = "faded" /\ pxOpacity = 85 /\ pxStyled.a = 255 /\ pxFaded.a = 217


(***************************************************************************)
(* ConnectionManager: startMonitoring, stopMonitoring, checkConnection and *)
(* scheduleReconnect.  A health check is in flight between the call of     *)
(* checkConnection and the settling of healthService.checkHealth().        *)
(***************************************************************************)
MaxRetryCount == 3     \* retryCount is followed up to here
MaxChecks == 2         \* health checks in flight at once

\* stopMonitoring(): both timers are cleared
StopTimers ==
  /\ checkInterval' = FALSE
  /\ reconnectTimeout' = FALSE

\* the try branch of checkConnection: the check came back ok
CheckOk ==
  /\ isConnected' = TRUE
  /\ retryCount' = 0

\* the catch branch of checkConnection, without scheduleReconnect()
CheckFailed ==
  /\ isConnected' = FALSE
  /\ retryCount' = retryCount + 1

\* startMonitoring is called: its initial check goes out
StartMonitoring ==
  /\ ~starting
  /\ starting' = TRUE
  /\ stopped' = FALSE
  /\ UNCHANGED <<checkInterval, reconnectTimeout, isConnected, retryCount, checking>>

\* The initial check settles and startMonitoring runs on: a failed check has
\* called scheduleReconnect(), then stopMonitoring() clears both timers and
\* the interval is set.
StartMonitoringResumes(ok) ==
  /\ starting
  /\ IF ok THEN CheckOk ELSE (retryCount < MaxRetryCount /\ CheckFailed)
  /\ checkInterval' = TRUE
  /\ reconnectTimeout' = FALSE
  /\ starting' = FALSE
  /\ UNCHANGED <<checking, stopped>>

\* stopMonitoring()
StopMonitoring ==
  /\ StopTimers
  /\ stopped' = TRUE
  /\ UNCHANGED <<isConnected, retryCount, checking, starting>>

\* the interval set by startMonitoring fires: checkConnection is called
IntervalFires ==
  /\ checkInterval /\ checking < MaxChecks
  /\ checking' = checking + 1
  /\ UNCHANGED <<checkInterval, reconnectTimeout, isConnected, retryCount,
                 starting, stopped>>

\* the timeout set by scheduleReconnect fires: checkConnection is called
ReconnectFires ==
  /\ reconnectTimeout /\ checking < MaxChecks
  /\ reconnectTimeout' = FALSE
  /\ checking' = checking + 1
  /\ UNCHANGED <<checkInterval, isConnected, retryCount, starting, stopped>>

\* a check started by a timer settles; a failed one calls scheduleReconnect(),
\* which sets the timeout unless one is pending
CheckSettles(ok) ==
  /\ checking > 0
  /\ checking' = checking - 1
  /\ IF ok
     THEN CheckOk /\ UNCHANGED reconnectTimeout
     ELSE /\ retryCount < MaxRetryCount
          /\ CheckFailed
          /\ reconnectTimeout' = TRUE
  /\ UNCHANGED <<checkInterval, starting, stopped>>

InitConn == ConnIdle /\ ApiIdle /\ ImgIdle /\ PlaceIdle /\ PixIdle /\ SvcIdle /\ LateIdle

NextConn ==
  \/ StartMonitoring /\ UNCHANGED notConn
  \/ \E ok \in BOOLEAN : StartMonitoringResumes(ok) /\ UNCHANGED notConn
  \/ StopMonitoring /\ UNCHANGED notConn
  \/ IntervalFires /\ UNCHANGED notConn
  \/ ReconnectFires /\ UNCHANGED notConn
  \/ \E ok \in BOOLEAN : CheckSettles(ok) /\ UNCHANGED notConn

SpecConn == InitConn /\ [][NextConn]_vars

\* C16: from the return of stopMonitoring() until the next call of
\* startMonitoring(), no timer starts a health check, also when a health
\* check was in flight at the time of the stop.
C16_NoCheckAfterStop ==
  [][(stopped /\ stopped') => checking' <= checking]_vars


(***************************************************************************)
(* AutoStartService: startServer, the handlers of the child process,       *)
(* the health check, scheduleRestart and shutdown.                         *)
(***************************************************************************)
maxRestarts == 10         \* this.maxRestarts
MaxStartFailures == 1     \* starts that fail (no free port) in a run
MaxErrors == 1            \* 'error' events of server processes in a run

\* the fields that scheduleRestart and shutdown work on
Svc == [isShuttingDown |-> isShuttingDown, serverProcess |-> serverProcess,
        healthCheckInterval |-> healthCheckInterval,
        restartCount |-> restartCount, restartTimer |-> restartTimer,
        exitTimer |-> exitTimer, exited |-> exited, shutdownBy |-> shutdownBy]

SetSvc(st) ==
  /\ isShuttingDown' = st.isShuttingDown
  /\ serverProcess' = st.serverProcess
  /\ healthCheckInterval' = st.healthCheckInterval
  /\ restartCount' = st.restartCount
  /\ restartTimer' = st.restartTimer
  /\ exitTimer' = st.exitTimer
  /\ exited' = st.exited
  /\ shutdownBy' = st.shutdownBy

\* shutdown(): a child that was not killed by the service gets SIGTERM and
\* process.exit follows on a timer; otherwise process.exit is called at once
shutdown(st, by) ==
  LET s1 == [st EXCEPT !.isShuttingDown = TRUE, !.healthCheckInterval = FALSE,
                       !.shutdownBy = IF st.shutdownBy = "none" THEN by
                                      ELSE st.shutdownBy]
  IN IF st.serverProcess \in {"running", "exited"}
     THEN [s1 EXCEPT !.exitTimer = TRUE,
                     !.serverProcess = IF st.serverProcess = "running"
                                       THEN "killed" ELSE "exited"]
     ELSE [s1 EXCEPT !.exited = TRUE]

\* scheduleRestart()
scheduleRestart(st) ==
  IF st.isShuttingDown THEN st
  ELSE IF st.restartCount >= maxRestarts THEN shutdown(st, "limit")
  ELSE [st EXCEPT !.restartCount = st.restartCount + 1, !.restartTimer = st.restartTimer + 1]

\* `node auto-start.js start`: start() calls startServer(), which looks for a
\* free port
Start ==
  /\ ~exited /\ ~isShuttingDown
  /\ startPc = "none" /\ serverProcess = "none" /\ restartTimer = 0
  /\ startFailures = 0
  /\ startPc' = "cli"
  /\ UNCHANGED <<isShuttingDown, serverProcess, healthCheckInterval,
                 restartCount, restartTimer, exitTimer, exited, crashPending,
                 shutdownBy, startFailures, errors>>

\* startServer goes on after findAvailablePort.  With a port the child is
\* spawned and the health checks start.  Without one the catch block calls
\* scheduleRestart() and rethrows: start() passes the error to the command
\* line, which exits; a call made by the restart timer leaves a rejected
\* promise that nobody handles, which the runtime either ignores or raises
\* as an uncaught exception, whose handler calls shutdown().
SpawnServer(ok, rejection) ==
  /\ ~exited /\ startPc # "none"
  /\ startPc' = "none"
  /\ errors' = errors
  /\ IF ok
     THEN /\ SetSvc([Svc EXCEPT !.serverProcess = "running",
                                !.healthCheckInterval = TRUE])
          /\ crashPending' = FALSE
          /\ startFailures' = startFailures
     ELSE /\ startFailures < MaxStartFailures
          /\ startFailures' = startFailures + 1
          /\ crashPending' = crashPending
          /\ LET st == scheduleRestart(Svc) IN
             IF startPc = "cli" THEN SetSvc([st EXCEPT !.exited = TRUE])
             ELSE IF rejection = "uncaught" THEN SetSvc(shutdown(st, "exception"))
             ELSE SetSvc(st)

\* the child prints 'Ready in': this.restartCount = 0
ServerReady ==
  /\ ~exited /\ serverProcess \in {"running", "killed"} /\ restartCount > 0
  /\ restartCount' = 0
  /\ UNCHANGED <<isShuttingDown, serverProcess, healthCheckInterval,
                 restartTimer, startPc, exitTimer, exited, crashPending,
                 shutdownBy, startFailures, errors>>

\* the 'exit' handler of the child; crash: the exit code is not 0 (it is null
\* when a signal ended the process)
ServerExits(crash) ==
  /\ ~exited /\ serverProcess \in {"running", "killed"}
  /\ serverProcess = "killed" => crash
  /\ LET st == [Svc EXCEPT !.serverProcess = IF serverProcess = "killed"
                                             THEN "reaped" ELSE "exited",
                           !.healthCheckInterval = FALSE]
     IN SetSvc(IF ~isShuttingDown /\ crash THEN scheduleRestart(st) ELSE st)
  /\ crashPending' = (crashPending
                        \/ (crash /\ ~isShuttingDown /\ restartCount < maxRestarts))
  /\ UNCHANGED <<startPc, startFailures, errors>>

\* the 'error' handler of the child (a signal or a message could not be
\* delivered); the 'exit' event may or may not follow
ServerError ==
  /\ ~exited /\ serverProcess \in {"running", "killed"}
  /\ errors < MaxErrors
  /\ errors' = errors + 1
  /\ SetSvc(scheduleRestart(Svc))
  /\ UNCHANGED <<startPc, crashPending, startFailures>>

\* the health check finds the server unresponsive: SIGTERM
HealthCheckKills ==
  /\ ~exited /\ healthCheckInterval /\ serverProcess = "running"
  /\ serverProcess' = "killed"
  /\ UNCHANGED <<isShuttingDown, healthCheckInterval, restartCount,
                 restartTimer, startPc, exitTimer, exited, crashPending,
                 shutdownBy, startFailures, errors>>

\* the timeout of scheduleRestart fires
RestartTimerFires ==
  /\ ~exited /\ restartTimer > 0 /\ startPc = "none"
  /\ restartTimer' = restartTimer - 1
  /\ startPc' = IF isShuttingDown THEN "none" ELSE "timer"
  /\ UNCHANGED <<isShuttingDown, serverProcess, healthCheckInterval,
                 restartCount, exitTimer, exited, crashPending, shutdownBy,
                 startFailures, errors>>

\* SIGINT, SIGTERM or SIGUSR2 reaches the service
Shutdown ==
  /\ ~exited /\ ~isShuttingDown
  /\ SetSvc(shutdown(Svc, "operator"))
  /\ UNCHANGED <<startPc, crashPending, startFailures, errors>>

\* the timeouts of shutdown run out: process.exit(0)
ExitTimerFires ==
  /\ ~exited /\ exitTimer
  /\ exited' = TRUE
  /\ exitTimer' = FALSE
  /\ UNCHANGED <<isShuttingDown, serverProcess, healthCheckInterval,
                 restartCount, restartTimer, startPc, crashPending,
                 shutdownBy, startFailures, errors>>

InitSvc == SvcIdle /\ ApiIdle /\ ImgIdle /\ PlaceIdle /\ PixIdle /\ ConnIdle /\ LateIdle

NextSvc ==
  \/ Start /\ UNCHANGED notSvc
  \/ \E ok \in BOOLEAN, rj \in {"ignored", "uncaught"} :
        SpawnServer(ok, rj) /\ UNCHANGED notSvc
  \/ ServerReady /\ UNCHANGED notSvc
  \/ \E crash \in BOOLEAN : ServerExits(crash) /\ UNCHANGED notSvc
  \/ ServerError /\ UNCHANGED notSvc
  \/ HealthCheckKills /\ UNCHANGED notSvc
  \/ RestartTimerFires /\ UNCHANGED notSvc
  \/ Shutdown /\ UNCHANGED notSvc
  \/ ExitTimerFires /\ UNCHANGED notSvc

\* timers that are set fire, and the search for a port comes to an end
SpecSvc ==
  /\ InitSvc /\ [][NextSvc]_vars
  /\ WF_vars(Start /\ UNCHANGED notSvc)
  /\ WF_vars(RestartTimerFires /\ UNCHANGED notSvc)
  /\ WF_vars(ExitTimerFires /\ UNCHANGED notSvc)
  /\ WF_vars(\E ok \in BOOLEAN, rj \in {"ignored", "uncaught"} :
                SpawnServer(ok, rj) /\ UNCHANGED notSvc)

\* C17: when the server process crashes while the service is not shutting
\* down and the restart limit is not reached, a new server process is
\* started eventually (unless the operator shuts the service down).
C17_CrashLeadsToRestart ==
  crashPending ~> (~crashPending \/ shutdownBy = "operator")

\* C26: restartCount of the AutoStartService never exceeds maxRestarts, and
\* once a failure at the limit has made the service give up, no restart is
\* scheduled and no further server process is started.
C26_LimitStopsRestarts ==
  /\ [](restartCount <= maxRestarts)
  /\ [][shutdownBy = "limit"
          => /\ restartTimer' <= restartTimer
             /\ ~(startPc # "none" /\ startPc' = "none"
                    /\ serverProcess' = "running")]_vars

(***************************************************************************)
(* Several calls of addLogoOverlay in one process.  A call runs from one   *)
(* await to the next without interruption; at an await another call may    *)
(* run.  Everything a call writes is a local of the call; the logo files   *)
(* are only read.  The base image is a PNG data URL, whose bytes decode    *)
(* ("good") or do not ("corrupt").                                         *)
(***************************************************************************)
RunInputs ==
  [style : {"isometric", "newyork-cartoon"}, logoOpacity : {85, 100},
   bytes : {"good", "corrupt"}]

\* the options after the destructuring defaults (imageProcessor.ts:116-122)
runDefaults == [position |-> "bottom-left", logoSize |-> 35, logoRotation |-> 0]

\* the logo layer after resize, style and rotation, as toBuffer encodes it
runProcessedLogo(o, variant) ==
  LET m == LogoMeta(variant)
      b == calculateLogoPlacement(
             [imageWidth |-> BaseMeta.width, imageHeight |-> BaseMeta.height,
              logoWidth |-> m.width, logoHeight |-> m.height,
              position |-> runDefaults.position,
              logoSize |-> runDefaults.logoSize])
  IN [NoLayer EXCEPT !.variant = variant,
                     !.box = <<b.x, b.y, b.width, b.height>>,
                     !.bw = (o.style = "newyork-cartoon"),
                     !.rotation = runDefaults.logoRotation]

\* the call resolves
RunReturn(r, v) ==
  /\ runResult' = [runResult EXCEPT ![r] = v]
  /\ runPc' = [runPc EXCEPT ![r] = "done"]

\* the catch block: the base image is a data URL and is returned as it came
RunCatch(r) ==
  RunReturn(r, [tag |-> "string", mime |-> "png",
                bytes |-> runOptions[r].bytes, layer |-> NoLayer])

\* await loadImage(baseImage) resolves; baseImageSharp.metadata() is awaited
RunLoad(r) ==
  /\ runPc[r] = "load"
  /\ baseImageBuffer' = [baseImageBuffer EXCEPT ![r] = runOptions[r].bytes]
  /\ runPc' = [runPc EXCEPT ![r] = "decode"]
  /\ UNCHANGED <<runOptions, processedLogo, compositeInput, runResult>>

\* metadata() settles; the logo file is resolved and read, its metadata awaited
RunDecode(r) ==
  /\ runPc[r] = "decode"
  /\ IF ~Decodable(baseImageBuffer[r])
     THEN RunCatch(r) /\ processedLogo' = processedLogo
     ELSE LET variant == getLogoPath(runOptions[r].style, logoBW) IN
          IF logoExists(variant)
          THEN /\ processedLogo' =
                    [processedLogo EXCEPT ![r] = [NoLayer EXCEPT !.variant = variant]]
               /\ runPc' = [runPc EXCEPT ![r] = "logo"]
               /\ runResult' = runResult
          ELSE /\ RunReturn(r, pngDataUrl(baseImageBuffer[r], NoLayer))
               /\ processedLogo' = processedLogo
  /\ UNCHANGED <<runOptions, baseImageBuffer, compositeInput>>

\* variant: the encoded logo is kept in one place for all calls
RunEncode_shared(r) ==
  /\ runPc[r] = "logo"
  /\ processedLogo' =
       [q \in Runs |-> runProcessedLogo(runOptions[r], processedLogo[r].variant)]
  /\ runPc' = [runPc EXCEPT ![r] = "encode"]
  /\ UNCHANGED <<runOptions, baseImageBuffer, compositeInput, runResult>>

\* logoSharp.metadata() resolves: placement, resize, style and rotation are
\* set up and processedLogo.ensureAlpha().png().toBuffer() is awaited
RunEncode(r) ==
  /\ runPc[r] = "logo"
  /\ processedLogo' =
       [processedLogo EXCEPT
          ![r] = runProcessedLogo(runOptions[r], processedLogo[r].variant)]
  /\ runPc' = [runPc EXCEPT ![r] = "encode"]
  /\ UNCHANGED <<runOptions, baseImageBuffer, compositeInput, runResult>>

\* toBuffer resolves: compositeInput is the encoded logo; below 100% the raw
\* pixels are awaited, else the composite
RunEncoded(r) ==
  /\ runPc[r] = "encode"
  /\ compositeInput' = [compositeInput EXCEPT ![r] = processedLogo[r]]
  /\ runPc' = [runPc EXCEPT
                 ![r] = IF runOptions[r].logoOpacity < 100 THEN "raw" ELSE "composite"]
  /\ UNCHANGED <<runOptions, baseImageBuffer, processedLogo, runResult>>

\* the raw buffer resolves, its alpha bytes are scaled and re-encoded
RunOpacity(r) ==
  /\ runPc[r] = "raw"
  /\ compositeInput' =
       [compositeInput EXCEPT
          ![r] = [processedLogo[r] EXCEPT !.opacity = runOptions[r].logoOpacity]]
  /\ runPc' = [runPc EXCEPT ![r] = "composite"]
  /\ UNCHANGED <<runOptions, baseImageBuffer, processedLogo, runResult>>

\* baseImageSharp.composite([...]).png().toBuffer() resolves
RunComposite(r) ==
  /\ runPc[r] = "composite"
  /\ RunReturn(r, pngDataUrl(baseImageBuffer[r],
        [compositeInput[r] EXCEPT
           !.blend = IF runOptions[r].style = "newyork-cartoon"
                     THEN "multiply" ELSE "over"]))
  /\ UNCHANGED <<runOptions, baseImageBuffer, processedLogo, compositeInput>>

InitRuns ==
  /\ runOptions \in [Runs -> RunInputs]
  /\ runPc = [r \in Runs |-> "load"]
  /\ baseImageBuffer = [r \in Runs |-> "none"]
  /\ processedLogo = [r \in Runs |-> NoLayer]
  /\ compositeInput = [r \in Runs |-> NoLayer]
  /\ runResult = [r \in Runs |-> NoRet]
  /\ logoBW \in BOOLEAN /\ logoSquare \in BOOLEAN /\ ImgOff
  /\ ApiIdle /\ PlaceIdle /\ PixIdle /\ ConnIdle /\ SvcIdle
  /\ MonIdle /\ HcIdle /\ GameIdle /\ GenIdle /\ EditIdle

NextRuns ==
  \E r \in Runs :
     \/ RunLoad(r) /\ UNCHANGED notRun
     \/ RunDecode(r) /\ UNCHANGED notRun
     \/ RunEncode(r) /\ UNCHANGED notRun
     \/ RunEncoded(r) /\ UNCHANGED notRun
     \/ RunOpacity(r) /\ UNCHANGED notRun
     \/ RunComposite(r) /\ UNCHANGED notRun

SpecRuns == InitRuns /\ [][NextRuns]_vars

\* what a call returns when no other call runs: addLogoOverlay from its first
\* statement to its return
overlayAlone(o) ==
  IF ~Decodable(o.bytes)
  THEN [tag |-> "string", mime |-> "png", bytes |-> o.bytes, layer |-> NoLayer]
  ELSE LET variant == getLogoPath(o.style, logoBW) IN
       IF ~logoExists(variant)
       THEN pngDataUrl(o.bytes, NoLayer)
       ELSE pngDataUrl(o.bytes,
              [runProcessedLogo(o, variant) EXCEPT
                 !.opacity = IF o.logoOpacity < 100 THEN o.logoOpacity ELSE 100,
                 !.blend = IF o.style = "newyork-cartoon" THEN "multiply" ELSE "over"])

\* C23: whatever the interleaving of the calls at their awaits, a call that
\* has resolved returns what it returns when it runs alone on the same base
\* image, options and logo files.
C23_RunsIndependent ==
  \A r \in Runs : runPc[r] = "done" => runResult[r] = overlayAlone(runOptions[r])

\* C23 witness: two calls with different options were suspended at the same
\* time with their logos encoded, and one of them has resolved with a logo.
C23_Witness ==
  \E r, q \in Runs :
     /\ r # q /\ runOptions[r] # runOptions[q]
     /\ runPc[r] = "done" /\ runResult[r].layer.variant # "none"
     /\ runPc[q] \in {"raw", "composite"}

(***************************************************************************)
(* ServerMonitor (scripts/monitor-server.js): the second supervisor of the *)
(* development server.  startServer is synchronous up to the spawn; the    *)
(* restart timeouts and the health-check intervals are never cleared.      *)
(***************************************************************************)
monMaxRestarts == 5       \* this.maxRestarts
MaxMonErrors == 1         \* 'error' events and failed health checks in a run

Mon == [restartCount |-> monRestartCount, process |-> monProcess,
        timers |-> monTimers, exited |-> monExited,
        restartsOfChild |-> monRestartsOfChild]

SetMon(st) ==
  /\ monRestartCount' = st.restartCount
  /\ monProcess' = st.process
  /\ monTimers' = st.timers
  /\ monExited' = st.exited
  /\ monRestartsOfChild' = st.restartsOfChild

\* handleRestart(): at the limit process.exit(1); else the count goes up, a
\* child that is alive and was not signalled gets SIGTERM, and startServer is
\* set to run in 5 s
handleRestart(st) ==
  IF st.restartCount >= monMaxRestarts THEN [st EXCEPT !.exited = TRUE]
  ELSE [st EXCEPT !.restartCount = st.restartCount + 1,
                  !.restartsOfChild = st.restartsOfChild + 1,
                  !.process = IF st.process = "running" THEN "killing"
                              ELSE st.process,
                  !.timers = st.timers + 1]

\* startServer(): killPorts, spawn, setupProcessHandlers, waitForStartup
monStartServer(st) ==
  [st EXCEPT !.process = "running", !.restartsOfChild = 0]

\* monitor.startServer() at the end of the script
MonStart ==
  /\ ~monExited /\ monProcess = "none" /\ monTimers = 0
  /\ SetMon(monStartServer(Mon))
  /\ monStarted' = FALSE
  /\ UNCHANGED <<monHealthChecks, monErrors>>

\* the child prints 'Ready in': startHealthChecks() sets an interval, and
\* the timeout of waitForStartup is cleared
MonReady ==
  /\ ~monExited /\ monProcess \in {"running", "killing"} /\ ~monStarted
  /\ monStarted' = TRUE
  /\ monHealthChecks' = TRUE
  /\ UNCHANGED <<monRestartCount, monProcess, monTimers, monExited, monErrors,
                 monRestartsOfChild>>

\* the timeout of waitForStartup: the child is killed and the promise, which
\* nobody awaits, is rejected; the runtime ignores that or ends the monitor
MonStartupTimeout(rejection) ==
  /\ ~monExited /\ monProcess \in {"running", "killing"} /\ ~monStarted
  /\ monStarted' = TRUE            \* the timeout runs once
  /\ monProcess' = "killing"
  /\ monExited' = (rejection = "uncaught")
  /\ UNCHANGED <<monRestartCount, monHealthChecks, monTimers, monErrors,
                 monRestartsOfChild>>

\* the 'exit' handler; crash: the code is not 0 (null after a signal)
MonExit(crash) ==
  /\ ~monExited /\ monProcess \in {"running", "killing"}
  /\ monProcess = "killing" => crash
  /\ LET st == [Mon EXCEPT !.process = IF monProcess = "killing"
                                       THEN "reaped" ELSE "dead"]
     IN SetMon(IF crash THEN handleRestart(st) ELSE st)
  /\ UNCHANGED <<monStarted, monHealthChecks, monErrors>>

\* the 'error' handler of the child
MonError ==
  /\ ~monExited /\ monProcess \in {"running", "killing"}
  /\ monErrors < MaxMonErrors
  /\ monErrors' = monErrors + 1
  /\ SetMon(handleRestart(Mon))
  /\ UNCHANGED <<monStarted, monHealthChecks>>

\* a health-check request ends with 'error': the server does not answer
MonHealthCheckFails ==
  /\ ~monExited /\ monHealthChecks /\ monProcess # "none"
  /\ monErrors < MaxMonErrors
  /\ monErrors' = monErrors + 1
  /\ SetMon(handleRestart(Mon))
  /\ UNCHANGED <<monStarted, monHealthChecks>>

\* a timeout of handleRestart fires: startServer()
MonTimerFires ==
  /\ ~monExited /\ monTimers > 0
  /\ SetMon([monStartServer(Mon) EXCEPT !.timers = monTimers - 1])
  /\ monStarted' = FALSE
  /\ UNCHANGED <<monHealthChecks, monErrors>>

\* SIGINT or SIGTERM: stop() signals the child, then process.exit(0)
MonStop ==
  /\ ~monExited
  /\ monExited' = TRUE
  /\ monProcess' = IF monProcess = "running" THEN "killing" ELSE monProcess
  /\ UNCHANGED <<monRestartCount, monStarted, monHealthChecks, monTimers,
                 monErrors, monRestartsOfChild>>

InitMon ==
  /\ MonIdle /\ RunIdle /\ HcIdle /\ GameIdle /\ GenIdle /\ EditIdle
  /\ ApiIdle /\ ImgIdle /\ PlaceIdle /\ PixIdle /\ ConnIdle /\ SvcIdle

NextMon ==
  \/ MonStart /\ UNCHANGED notMon
  \/ MonReady /\ UNCHANGED notMon
  \/ \E rj \in {"ignored", "uncaught"} : MonStartupTimeout(rj) /\ UNCHANGED notMon
  \/ \E crash \in BOOLEAN : MonExit(crash) /\ UNCHANGED notMon
  \/ MonError /\ UNCHANGED notMon
  \/ MonHealthCheckFails /\ UNCHANGED notMon
  \/ MonTimerFires /\ UNCHANGED notMon
  \/ MonStop /\ UNCHANGED notMon

SpecMon == InitMon /\ [][NextMon]_vars

\* C25: a failure of the server leads to one scheduled restart and one
\* increment of restartCount: no more than one restart is counted for one
\* server process, also when the process ends by the monitor's own signal.
C25_OneRestartPerFailure == monRestartsOfChild <= 1

(***************************************************************************)
(* The ConnectionManager with its health checks carried out:               *)
(* checkConnection -> HealthCheckService.checkHealth -> ApiClient.get      *)
(* ('/api/health', skipRetry) on the ApiClient that the ServiceContainer   *)
(* shares, answered by pages/api/health.ts.  The server is down at first   *)
(* and, once it is up, stays up.                                           *)
(***************************************************************************)
\* the body of the 200 response of pages/api/health.ts
healthStatus == "healthy"

\* what `await fetch` of the health check yields
healthReply(up) ==
  IF up THEN [resolved |-> TRUE, ok |-> TRUE, status |-> healthStatus]
  ELSE [resolved |-> FALSE, ok |-> FALSE, status |-> "none"]

\* the ApiResponse that request() returns for the reply (skipRetry: one try)
healthResponse(reply) ==
  [success |-> reply.resolved /\ reply.ok,
   status |-> IF reply.resolved /\ reply.ok THEN reply.status ELSE "none"]

\* the breaker after the attempt: reset when fetch resolved, a failure
\* recorded when the request returns without success
breakerAfter(b, reply, t) ==
  LET b1 == IF reply.resolved THEN resetCircuitBreaker(b) ELSE b
  IN IF reply.resolved /\ reply.ok THEN b1 ELSE recordCircuitBreakerFailure(b1, t)

\* result.success && result.data?.status === 'ok'
checkPassed(result) == result.success /\ result.status = "ok"

\* the catch branch of checkConnection; the count is followed up to
\* MaxRetryCount
HcCheckFailed ==
  /\ isConnected' = FALSE
  /\ retryCount' = Min(retryCount + 1, MaxRetryCount)

\* startMonitoring(): the initial check is made; the breaker is looked at
\* when request() is entered
HcStartMonitoring ==
  /\ ~starting /\ ~checkInterval
  /\ ~isCircuitBreakerOpen(Breaker, now).ret
  /\ SetBreaker(isCircuitBreakerOpen(Breaker, now).after)
  /\ starting' = TRUE
  /\ UNCHANGED <<checkInterval, reconnectTimeout, isConnected, retryCount,
                 checking, stopped, now, serverUp>>

\* the initial check settles; startMonitoring goes on with stopMonitoring()
\* and sets the interval
HcStartSettles ==
  /\ starting
  /\ ~serverUp => now < MaxTime
  /\ LET reply == healthReply(serverUp) IN
       /\ SetBreaker(breakerAfter(Breaker, reply, now))
       /\ IF checkPassed(healthResponse(reply)) THEN CheckOk ELSE HcCheckFailed
  /\ checkInterval' = TRUE
  /\ reconnectTimeout' = FALSE
  /\ starting' = FALSE
  /\ UNCHANGED <<checking, stopped, now, serverUp>>

\* a timer calls checkConnection: with the breaker open request() returns at
\* once and the catch branch runs; else the fetch goes out
HcCheckBegins ==
  LET gate == isCircuitBreakerOpen(Breaker, now) IN
  /\ SetBreaker(gate.after)
  /\ IF gate.ret
     THEN /\ HcCheckFailed
          /\ reconnectTimeout' = TRUE
          /\ checking' = checking
     ELSE /\ checking' = checking + 1
          /\ UNCHANGED <<isConnected, retryCount>>

\* the interval of startMonitoring fires
HcIntervalFires ==
  /\ checkInterval /\ checking < MaxChecks
  /\ HcCheckBegins
  /\ ~isCircuitBreakerOpen(Breaker, now).ret => reconnectTimeout' = reconnectTimeout
  /\ UNCHANGED <<checkInterval, starting, stopped, now, serverUp>>

\* the timeout of scheduleReconnect fires
HcReconnectFires ==
  /\ reconnectTimeout /\ checking < MaxChecks
  /\ HcCheckBegins
  /\ ~isCircuitBreakerOpen(Breaker, now).ret => reconnectTimeout' = FALSE
  /\ UNCHANGED <<checkInterval, starting, stopped, now, serverUp>>

\* the fetch of a check settles
HcCheckSettles ==
  /\ checking > 0
  /\ ~serverUp => now < MaxTime
  /\ checking' = checking - 1
  /\ LET reply == healthReply(serverUp) IN
       /\ SetBreaker(breakerAfter(Breaker, reply, now))
       /\ IF checkPassed(healthResponse(reply))
          THEN CheckOk /\ UNCHANGED reconnectTimeout
          ELSE HcCheckFailed /\ reconnectTimeout' = TRUE
  /\ UNCHANGED <<checkInterval, starting, stopped, now, serverUp>>

\* the server comes up
ServerRecovers ==
  /\ ~serverUp
  /\ serverUp' = TRUE
  /\ UNCHANGED <<connVars, circuitBreakerFailures, circuitBreakerLastFailure,
                 circuitBreakerOpen, now>>

\* time passes; no failure is recorded after MaxTime, so that every
\* cool-down comes to its end
HcTick ==
  /\ now < MaxTime + circuitBreakerResetTime
  /\ now' = now + 1
  /\ UNCHANGED <<connVars, circuitBreakerFailures, circuitBreakerLastFailure,
                 circuitBreakerOpen, serverUp>>

InitHealth ==
  /\ ConnIdle /\ ApiIdle /\ HcIdle
  /\ ImgIdle /\ PlaceIdle /\ PixIdle /\ SvcIdle /\ RunIdle /\ MonIdle
  /\ GameIdle /\ GenIdle /\ EditIdle

NextHealth ==
  \/ HcStartMonitoring /\ UNCHANGED notHealth
  \/ HcStartSettles /\ UNCHANGED notHealth
  \/ HcIntervalFires /\ UNCHANGED notHealth
  \/ HcReconnectFires /\ UNCHANGED notHealth
  \/ HcCheckSettles /\ UNCHANGED notHealth
  \/ ServerRecovers /\ UNCHANGED notHealth
  \/ HcTick /\ UNCHANGED notHealth

\* timers fire, a fetch settles (it is aborted after 5 s at the latest) and
\* time passes
SpecHealth ==
  /\ InitHealth /\ [][NextHealth]_vars
  /\ WF_vars(HcStartMonitoring /\ UNCHANGED notHealth)
  /\ WF_vars(HcStartSettles /\ UNCHANGED notHealth)
  /\ WF_vars(HcIntervalFires /\ UNCHANGED notHealth)
  /\ WF_vars(HcReconnectFires /\ UNCHANGED notHealth)
  /\ WF_vars(HcCheckSettles /\ UNCHANGED notHealth)
  /\ WF_vars(HcTick /\ UNCHANGED notHealth)

\* C27: while monitoring is active, once the server is healthy and stays
\* healthy the ConnectionManager eventually reports isConnected = true, also
\* when failed health checks had opened the circuit breaker.
C27_HealthyLeadsToConnected == serverUp ~> isConnected

(***************************************************************************)
(* MiniGame (components/MiniGame.tsx).  The component stays mounted; an    *)
(* event changes props or state, the component renders and RunEffects runs *)
(* the effects whose dependencies changed, with the values of that render. *)
(***************************************************************************)
MaxGames == 2             \* times the game is shown
MaxOverGoal == 1          \* clicks counted beyond the goal
matchGoal == 4            \* newData.matches >= 4
clickGoal == 10           \* prev.clickedCount + 1 >= 10
leadGoal == 10            \* newCollected >= 10

GameTypes == {"match", "quickclick", "collector"}

\* endGame(): setGameCompleted(true), setShowFinishPrompt(false), onComplete
endGame ==
  /\ gameCompleted' = TRUE
  /\ showFinishPrompt' = FALSE
  /\ onCompleteCalls' = onCompleteCalls + 1
  /\ effectsDue' = IF gameCompleted THEN "none" ELSE "state"

\* the parent shows the game (isLoading became true)
GameShow ==
  /\ effectsDue = "none" /\ ~gameVisible /\ gamesPlayed < MaxGames
  /\ gameVisible' = TRUE
  /\ effectsDue' = "visible"
  /\ UNCHANGED <<currentGame, timeLeft, gameCompleted, generationComplete,
                 showFinishPrompt, gameProgress, gameTimer, goalTimeouts,
                 onCompleteCalls, gamesPlayed>>

\* the parent hides the game (1 s after loading ended, or Skip)
GameHide ==
  /\ effectsDue = "none" /\ gameVisible
  /\ gameVisible' = FALSE
  /\ effectsDue' = "visible"
  /\ UNCHANGED <<currentGame, timeLeft, gameCompleted, generationComplete,
                 showFinishPrompt, gameProgress, gameTimer, goalTimeouts,
                 onCompleteCalls, gamesPlayed>>

\* The effects after a render.  When isVisible changed to true the first
\* effect calls initializeGame(); the timer effect sets the 1 s timeout, or
\* calls endGame() when timeLeft is 0.  Both see the state of the render;
\* the state they set is applied afterwards, the later call last.
RunEffects ==
  /\ effectsDue # "none"
  /\ LET init == effectsDue = "visible" /\ gameVisible
         arms == gameVisible /\ timeLeft > 0 /\ ~gameCompleted
         ends == ~arms /\ timeLeft = 0
         completed1 == IF ends THEN TRUE ELSE IF init THEN FALSE ELSE gameCompleted
         timeLeft1 == IF init THEN gameSeconds ELSE timeLeft
     IN /\ gameTimer' = arms
        /\ gameCompleted' = completed1
        /\ timeLeft' = timeLeft1
        /\ showFinishPrompt' = IF ends THEN FALSE ELSE showFinishPrompt
        /\ onCompleteCalls' = onCompleteCalls + (IF ends THEN 1 ELSE 0)
        /\ gamesPlayed' = gamesPlayed + (IF init THEN 1 ELSE 0)
        /\ IF init
           THEN currentGame' \in GameTypes /\ gameProgress' = 0
           ELSE UNCHANGED <<currentGame, gameProgress>>
        /\ effectsDue' = IF completed1 # gameCompleted \/ timeLeft1 # timeLeft
                         THEN "state" ELSE "none"
  /\ UNCHANGED <<gameVisible, generationComplete, goalTimeouts>>

\* the 1 s timeout: setTimeLeft(timeLeft - 1)
GameTimerFires ==
  /\ effectsDue = "none" /\ gameTimer
  /\ gameTimer' = FALSE
  /\ timeLeft' = timeLeft - 1
  /\ effectsDue' = "state"
  /\ UNCHANGED <<gameVisible, currentGame, gameCompleted, generationComplete,
                 showFinishPrompt, gameProgress, goalTimeouts, onCompleteCalls,
                 gamesPlayed>>

\* generationProgress reaches 100
GenerationCompletes ==
  /\ effectsDue = "none" /\ ~generationComplete
  /\ generationComplete' = TRUE
  /\ showFinishPrompt' = ~gameCompleted
  /\ UNCHANGED <<gameVisible, currentGame, timeLeft, gameCompleted,
                 gameProgress, gameTimer, goalTimeouts, effectsDue,
                 onCompleteCalls, gamesPlayed>>

\* the button of the finish prompt: finishGameNow()
FinishGameNow ==
  /\ effectsDue = "none" /\ gameVisible /\ showFinishPrompt /\ ~gameCompleted
  /\ endGame
  /\ UNCHANGED <<gameVisible, currentGame, timeLeft, generationComplete,
                 gameProgress, gameTimer, goalTimeouts, gamesPlayed>>

\* handleMatchTileClick completes a pair
handleMatchTileClick ==
  /\ effectsDue = "none" /\ gameVisible /\ currentGame = "match"
  /\ ~gameCompleted /\ gameProgress < matchGoal
  /\ gameProgress' = gameProgress + 1
  /\ goalTimeouts' = goalTimeouts + (IF gameProgress + 1 >= matchGoal THEN 1 ELSE 0)
  /\ UNCHANGED <<gameVisible, currentGame, timeLeft, gameCompleted,
                 generationComplete, showFinishPrompt, gameTimer, effectsDue,
                 onCompleteCalls, gamesPlayed>>

\* handleQuickClick on a target that is shown
handleQuickClick ==
  /\ effectsDue = "none" /\ gameVisible /\ currentGame = "quickclick"
  /\ ~gameCompleted /\ gameProgress < clickGoal + MaxOverGoal
  /\ gameProgress' = gameProgress + 1
  /\ goalTimeouts' = goalTimeouts + (IF gameProgress + 1 >= clickGoal THEN 1 ELSE 0)
  /\ UNCHANGED <<gameVisible, currentGame, timeLeft, gameCompleted,
                 generationComplete, showFinishPrompt, gameTimer, effectsDue,
                 onCompleteCalls, gamesPlayed>>

\* handleCollectorIconClick on a lead that is shown
handleCollectorIconClick ==
  /\ effectsDue = "none" /\ gameVisible /\ currentGame = "collector"
  /\ gameProgress < leadGoal + MaxOverGoal
  /\ gameProgress' = gameProgress + 1
  /\ IF gameProgress + 1 >= leadGoal
     THEN endGame
     ELSE UNCHANGED <<gameCompleted, showFinishPrompt, onCompleteCalls, effectsDue>>
  /\ UNCHANGED <<gameVisible, currentGame, timeLeft, generationComplete,
                 gameTimer, goalTimeouts, gamesPlayed>>

\* a timeout set at the goal fires: endGame(true)
GoalTimeoutFires ==
  /\ effectsDue = "none" /\ goalTimeouts > 0
  /\ goalTimeouts' = goalTimeouts - 1
  /\ endGame
  /\ UNCHANGED <<gameVisible, currentGame, timeLeft, generationComplete,
                 gameProgress, gameTimer, gamesPlayed>>

InitGame ==
  /\ GameIdle /\ RunIdle /\ MonIdle /\ HcIdle /\ GenIdle /\ EditIdle
  /\ ApiIdle /\ ImgIdle /\ PlaceIdle /\ PixIdle /\ ConnIdle /\ SvcIdle

NextGame ==
  \/ GameShow /\ UNCHANGED notGame
  \/ GameHide /\ UNCHANGED notGame
  \/ RunEffects /\ UNCHANGED notGame
  \/ GameTimerFires /\ UNCHANGED notGame
  \/ GenerationCompletes /\ UNCHANGED notGame
  \/ FinishGameNow /\ UNCHANGED notGame
  \/ handleMatchTileClick /\ UNCHANGED notGame
  \/ handleQuickClick /\ UNCHANGED notGame
  \/ handleCollectorIconClick /\ UNCHANGED notGame
  \/ GoalTimeoutFires /\ UNCHANGED notGame

SpecGame == InitGame /\ [][NextGame]_vars

\* C28: onComplete is invoked once for each game played, whether the game
\* ends by the timer, by the goal or by both: the calls never outnumber the
\* games.
C28_OnCompleteOncePerGame == onCompleteCalls <= gamesPlayed

(***************************************************************************)
(* PostGenerator (components/PostGenerator.tsx): handleGenerate and the    *)
(* controls that call it.  Message and headline are filled in.  The        *)
(* controls are disabled while isGenerating is true.                       *)
(***************************************************************************)
MaxGenerations == 3       \* calls of handleGenerate in a run

\* handleGenerate() up to its first await: without a connection retry() is
\* awaited, else isGenerating is set and the request goes out
handleGenerate(connected) ==
  IF connected
  THEN /\ isGenerating' = TRUE
       /\ genInFlight' = genInFlight + 1
       /\ genRetrying' = genRetrying
  ELSE /\ genRetrying' = genRetrying + 1
       /\ UNCHANGED <<isGenerating, genInFlight>>

\* the Generate button (isLoading disables it)
ClickGenerate(connected) ==
  /\ ~isGenerating /\ genStarted < MaxGenerations
  /\ genStarted' = genStarted + 1
  /\ handleGenerate(connected)
  /\ UNCHANGED <<generatedImageUrl, genTimeouts, genAwarding, logoPosition, isAuthenticated>>

\* handleLogoPositionChange (the sliders do the same with their value):
\* with an image shown, setTimeout(() => handleGenerate(), 100)
handleLogoPositionChange(newPosition) ==
  /\ ~isGenerating /\ newPosition # logoPosition
  /\ logoPosition' = newPosition
  /\ IF generatedImageUrl
     THEN /\ genStarted < MaxGenerations
          /\ genStarted' = genStarted + 1
          /\ genTimeouts' = genTimeouts + 1
     ELSE UNCHANGED <<genStarted, genTimeouts>>
  /\ UNCHANGED <<isGenerating, generatedImageUrl, genRetrying, genInFlight,
                 genAwarding, isAuthenticated>>

\* a 100 ms timeout fires
GenTimeoutFires(connected) ==
  /\ genTimeouts > 0
  /\ genTimeouts' = genTimeouts - 1
  /\ handleGenerate(connected)
  /\ UNCHANGED <<generatedImageUrl, genAwarding, logoPosition, isAuthenticated, genStarted>>

\* retry() settles
RetrySettles(reconnected) ==
  /\ genRetrying > 0
  /\ IF reconnected
     THEN /\ isGenerating' = TRUE
          /\ genInFlight' = genInFlight + 1
     ELSE UNCHANGED <<isGenerating, genInFlight>>
  /\ genRetrying' = genRetrying - 1
  /\ UNCHANGED <<generatedImageUrl, genTimeouts, genAwarding, logoPosition,
                 isAuthenticated, genStarted>>

\* generateImage settles: on success the image is shown and, for a user
\* who is logged in, the points are awaited; finally setIsGenerating(false)
GenerateSettles(ok) ==
  /\ genInFlight > 0
  /\ genInFlight' = genInFlight - 1
  /\ generatedImageUrl' = (generatedImageUrl \/ ok)
  /\ IF ok /\ isAuthenticated
     THEN genAwarding' = genAwarding + 1 /\ isGenerating' = isGenerating
     ELSE genAwarding' = genAwarding /\ isGenerating' = FALSE
  /\ UNCHANGED <<genTimeouts, genRetrying, logoPosition, isAuthenticated, genStarted>>

\* addPoints and incrementGeneration settle; finally setIsGenerating(false)
AwardSettles ==
  /\ genAwarding > 0
  /\ genAwarding' = genAwarding - 1
  /\ isGenerating' = FALSE
  /\ UNCHANGED <<generatedImageUrl, genTimeouts, genRetrying, genInFlight,
                 logoPosition, isAuthenticated, genStarted>>

InitGen ==
  /\ GenMounted /\ isAuthenticated \in BOOLEAN
  /\ GameIdle /\ RunIdle /\ MonIdle /\ HcIdle /\ EditIdle
  /\ ApiIdle /\ ImgIdle /\ PlaceIdle /\ PixIdle /\ ConnIdle /\ SvcIdle

NextGen ==
  \/ \E c \in BOOLEAN : ClickGenerate(c) /\ UNCHANGED notGen
  \/ \E np \in {"bottom-left", "bottom-right", "top-right"} :
        handleLogoPositionChange(np) /\ UNCHANGED notGen
  \/ \E c \in BOOLEAN : GenTimeoutFires(c) /\ UNCHANGED notGen
  \/ \E c \in BOOLEAN : RetrySettles(c) /\ UNCHANGED notGen
  \/ \E ok \in BOOLEAN : GenerateSettles(ok) /\ UNCHANGED notGen
  \/ AwardSettles /\ UNCHANGED notGen

SpecGen == InitGen /\ [][NextGen]_vars

\* C29: isGenerating is true whenever an image-generation request is in
\* flight, also when generations are triggered in quick succession.
C29_GeneratingWhileInFlight == genInFlight > 0 => isGenerating

(***************************************************************************)
(* RichTextEditor (components/RichTextEditor.tsx).  A text is a sequence   *)
(* of characters.  The component is controlled: the text shown is the prop *)
(* `value`, which the parent sets to what onChange receives; history and   *)
(* historyIndex are the component's own state.  A handler runs with the    *)
(* values of the last render.                                              *)
(***************************************************************************)
\* handleTextChange adds to the history when the length changes by more
\* than this
significantChange == 3

\* the prop maxLength (default 500; 800 and 200 where the editor is used)
maxLength == 5

\* applyFormat does not test maxLength: the longest text the model formats
MaxTextLen == 6

\* entries of the history the model lets grow
MaxHistory == 2

\* value.substring(a, b) for 0 <= a <= b <= value.length
substring(text, a, b) == SubSeq(text, a + 1, b)

RECURSIVE repeat(_, _)
\* '#'.repeat(n)
repeat(ch, n) == IF n = 0 THEN <<>> ELSE <<ch>> \o repeat(ch, n - 1)

\* parseInt of the heading levels of the menu
parseLevel(level) ==
  CASE level = "1" -> 1 [] level = "2" -> 2 [] level = "3" -> 3

\* the toolbar and the keyboard shortcuts
FormatActions ==
  [type : {"bold", "italic", "underline", "bullet", "number", "quote"},
   value : {""}]
  \cup [type : {"heading"}, value : {"1", "2", "3"}]

ListItem == <<"L", "i", "s", "t", " ", "i", "t", "e", "m">>
QuoteText == <<"Q", "u", "o", "t", "e", " ", "t", "e", "x", "t">>
Heading == <<"H", "e", "a", "d", "i", "n", "g">>

\* `selectedText || placeholder`
orElse(selectedText, placeholder) ==
  IF selectedText # <<>> THEN selectedText ELSE placeholder

\* newText of applyFormat for the selection start..end of the text
formatted(action, text, start, end) ==
  LET selectedText == substring(text, start, end)
      beforeText == substring(text, 0, start)
      afterText == substring(text, end, Len(text))
      level == IF action.value # "" THEN action.value ELSE "1"
      headingPrefix == repeat("#", parseLevel(level)) \o <<" ">>
  IN CASE action.type = "bold" ->
            beforeText \o <<"*", "*">> \o selectedText \o <<"*", "*">>
              \o afterText
       [] action.type = "italic" ->
            beforeText \o <<"_">> \o selectedText \o <<"_">> \o afterText
       [] action.type = "underline" ->
            beforeText \o <<"<", "u", ">">> \o selectedText
              \o <<"<", "/", "u", ">">> \o afterText
       [] action.type = "bullet" ->
            beforeText \o <<"(bullet)", " ">>
              \o orElse(selectedText, ListItem) \o afterText
       [] action.type = "number" ->
            beforeText \o <<"1", ".", " ">>
              \o orElse(selectedText, ListItem) \o afterText
       [] action.type = "quote" ->
            beforeText \o <<">", " ">> \o orElse(selectedText, QuoteText)
              \o afterText
       [] action.type = "heading" ->
            beforeText \o headingPrefix \o orElse(selectedText, Heading)
              \o afterText

\* addToHistory(newValue): the new history and the new index
addToHistory(newValue) ==
  LET newHistory == Append(SubSeq(history, 1, historyIndex + 1), newValue)
  IN [history |-> newHistory, historyIndex |-> Len(newHistory) - 1]

\* applyFormat(action) with the textarea's selection start..end
applyFormat(action, start, end) ==
  LET newText == formatted(action, value, start, end)
      h == addToHistory(newText)
  IN /\ Len(newText) <= MaxTextLen
     /\ historyIndex + 1 < MaxHistory
     /\ history' = h.history
     /\ historyIndex' = h.historyIndex
     /\ value' = newText
     /\ lastOp' = "format"
     /\ shownBeforeUndo' = <<>>

\* handleUndo (the button is disabled and the shortcut does nothing at
\* index 0)
handleUndo ==
  /\ historyIndex > 0
  /\ LET newIndex == historyIndex - 1
     IN /\ historyIndex' = newIndex
        /\ value' = history[newIndex + 1]
  /\ lastOp' = "undo"
  /\ shownBeforeUndo' = value
  /\ UNCHANGED history

\* handleRedo
handleRedo ==
  /\ historyIndex < Len(history) - 1
  /\ LET newIndex == historyIndex + 1
     IN /\ historyIndex' = newIndex
        /\ value' = history[newIndex + 1]
  /\ lastOp' = "redo"
  /\ shownBeforeUndo' = <<>>
  /\ UNCHANGED history

\* |a - b|
abs(n) == IF n < 0 THEN 0 - n ELSE n

\* handleTextChange: the textarea reports the text newValue
handleTextChange(newValue) ==
  /\ newValue # value
  /\ Len(newValue) <= maxLength
  /\ value' = newValue
  /\ IF abs(Len(newValue) - Len(value)) > significantChange
       THEN LET h == addToHistory(newValue)
            IN /\ historyIndex + 1 < MaxHistory
               /\ history' = h.history
               /\ historyIndex' = h.historyIndex
       ELSE UNCHANGED <<history, historyIndex>>
  /\ lastOp' = "type"
  /\ shownBeforeUndo' = <<>>

\* what one change event can report: one character typed at the end or
\* deleted from it (a small change), or so many that the change counts as
\* significant (text pasted, a selection deleted)
TypedLengths == {1, significantChange + 1}

TypedValues ==
  {value \o repeat("a", k) : k \in TypedLengths}
  \cup {SubSeq(value, 1, Len(value) - k) : k \in TypedLengths \cap 1..Len(value)}

\* the selections the model tries: the cursor at the start, the cursor at
\* the end, the whole text
Selections == {<<0, 0>>, <<Len(value), Len(value)>>, <<0, Len(value)>>}

InitEdit ==
  /\ EditIdle
  /\ RunIdle /\ MonIdle /\ HcIdle /\ GameIdle /\ GenIdle
  /\ ApiIdle /\ ImgIdle /\ PlaceIdle /\ PixIdle /\ ConnIdle /\ SvcIdle

NextEdit ==
  \/ \E nv \in TypedValues : handleTextChange(nv) /\ UNCHANGED notEdit
  \/ \E a \in FormatActions, sel \in Selections :
        applyFormat(a, sel[1], sel[2]) /\ UNCHANGED notEdit
  \/ handleUndo /\ UNCHANGED notEdit
  \/ handleRedo /\ UNCHANGED notEdit

SpecEdit == InitEdit /\ [][NextEdit]_vars

\* C30: an undo followed immediately by a redo restores exactly the text
\* that was shown before the undo, whatever typing, formatting, undo and
\* redo operations came before.
C30_UndoRedoRestores ==
  [][(lastOp = "undo" /\ lastOp' = "redo") => value' = shownBeforeUndo]_vars

====
